---------------------------- MODULE Spec2Model ----------------------------
(***************************************************************************)
(* A model of the configuration compiler of the scaffold package           *)
(* (src/scaffold/config.py): ScaffoldConfig and JSONConfig.                *)
(*                                                                         *)
(* The loader JSONConfig.__init__ is a state machine whose steps are the   *)
(* calls it makes: load_general, load_output, and for every collection the *)
(* key check of load_attr followed by one step per init call and one step  *)
(* per finalize call.  A returned configuration can be resized.            *)
(*                                                                         *)
(* Numbers are exact rationals <<numerator, denominator>>: floating-point  *)
(* rounding is not modelled.  Documents whose volume-scaled layers do not  *)
(* have a rational cube root are outside the input sets.                   *)
(***************************************************************************)
EXTENDS Integers, Sequences, FiniteSets, TLC

(***************************************************************************)
(* Bounds of the model.                                                    *)
(***************************************************************************)
MaxLayers == 3

MaxCellTypes == 2

MaxConnections == 2

MaxResizes == 2

MaxRoot == 16

(***************************************************************************)
(* Exact rational arithmetic.                                              *)
(***************************************************************************)
Abs(n) == IF n < 0 THEN -n ELSE n

RECURSIVE Gcd(_, _)
Gcd(a, b) == IF b = 0 THEN a ELSE Gcd(b, a % b)

\* <<0, 0>> stands for a value that is no rational (a division by zero, an
\* irrational cube root); it is absorbing.
NaN == <<0, 0>>

Rat(n, d) ==
  LET g == Gcd(Abs(n), Abs(d))
      s == IF d < 0 THEN -1 ELSE 1
  IN  IF d = 0 THEN NaN
      ELSE IF n = 0 THEN <<0, 1>>
      ELSE <<s * (n \div g), s * (d \div g)>>

R(n) == <<n, 1>>

RAdd(p, q) == Rat(p[1] * q[2] + q[1] * p[2], p[2] * q[2])

RSub(p, q) == Rat(p[1] * q[2] - q[1] * p[2], p[2] * q[2])

RMul(p, q) == Rat(p[1] * q[1], p[2] * q[2])

RDiv(p, q) == Rat(p[1] * q[2], p[2] * q[1])

RLeq(p, q) == p[1] * q[2] <= q[1] * p[2]

RPos(p) == p[1] > 0

IsCube(n) == \E r \in 0..MaxRoot : r * r * r = n

ICbrt(n) == CHOOSE r \in 0..MaxRoot : r * r * r = n

\* Whether the real cube root of the non-negative rational p is rational.
HasCubeRoot(p) == p[2] > 0 /\ p[1] >= 0 /\ IsCube(p[1]) /\ IsCube(p[2])

\* pow(p, 1 / 3)
Cbrt(p) == IF HasCubeRoot(p) THEN <<ICbrt(p[1]), ICbrt(p[2])>> ELSE NaN

IsNumber(p) == p[2] # 0

(***************************************************************************)
(* Floating-point arithmetic.  A Python float is a binary number with a    *)
(* mantissa of 53 bits; the model keeps MantissaBits of them.  Every       *)
(* operation gives the exact result rounded to the nearest such number,    *)
(* ties to the even mantissa.                                              *)
(***************************************************************************)
MantissaBits == 6

MaxExponent == 12

RECURSIVE Pow2(_)
Pow2(k) == IF k = 0 THEN 1 ELSE 2 * Pow2(k - 1)

\* p / 2^e
Scale(p, e) ==
  IF e >= 0 THEN Rat(p[1], p[2] * Pow2(e)) ELSE Rat(p[1] * Pow2(-e), p[2])

\* The exponent e of a positive p: 2^(MantissaBits - 1) <= p / 2^e < 2^MantissaBits.
Exponent(p) ==
  CHOOSE e \in (-MaxExponent)..MaxExponent :
     LET q == Scale(p, e)
     IN  q[1] >= Pow2(MantissaBits - 1) * q[2] /\ q[1] < Pow2(MantissaBits) * q[2]

\* The integer nearest to the non-negative rational q, the even one of two.
RoundHalfEven(q) ==
  LET f == q[1] \div q[2]
      r == q[1] % q[2]
  IN  IF 2 * r < q[2] THEN f
      ELSE IF 2 * r > q[2] THEN f + 1
      ELSE IF f % 2 = 0 THEN f ELSE f + 1

\* The float nearest to p.
fl(p) ==
  IF ~IsNumber(p) \/ p[1] = 0 THEN p
  ELSE LET a == <<Abs(p[1]), p[2]>>
           e == Exponent(a)
           m == RoundHalfEven(Scale(a, e))
       IN  Scale(<<(IF p[1] < 0 THEN -1 ELSE 1) * m, 1>>, -e)

FMul(p, q) == fl(RMul(p, q))

FDiv(p, q) == fl(RDiv(p, q))

FSub(p, q) == fl(RSub(p, q))


(***************************************************************************)
(* Python values.  A dict is a function; key order, where the code relies  *)
(* on it, is kept in a sequence beside it.                                 *)
(***************************************************************************)
EmptyDict == [k \in {} |-> TRUE]

Has(d, k) == k \in DOMAIN d

Put(d, k, v) == [x \in (DOMAIN d) \cup {k} |-> IF x = k THEN v ELSE d[x]]

Ok(v) == [ok |-> TRUE, val |-> v]

Err(e) == [ok |-> FALSE, err |-> e]

RECURSIVE SeqSum(_)
SeqSum(s) == IF s = <<>> THEN R(0) ELSE RAdd(s[1], SeqSum(Tail(s)))

Range(s) == {s[i] : i \in DOMAIN s}

(***************************************************************************)
(* The classes the loader can meet.  Ancestors[c] is the set of classes c  *)
(* derives from, c included (issubclass).  The capability interfaces are   *)
(* the names config.py imports; the component classes are the ones         *)
(* NestAdapter.configuration_classes names.                                *)
(***************************************************************************)
Interfaces ==
  {"PlacementStrategy", "Morphology", "ConnectionStrategy", "OutputFormatter",
   "SimulatorAdapter", "SimulationComponent"}

Ancestors ==
  [c \in Interfaces |-> {c}] @@
  [ParticlePlacement |-> {"ParticlePlacement", "PlacementStrategy"},
   Entities          |-> {"Entities", "PlacementStrategy"},
   NoGeometry        |-> {"NoGeometry", "Morphology"},
   AllToAll          |-> {"AllToAll", "ConnectionStrategy"},
   HDF5Formatter     |-> {"HDF5Formatter", "OutputFormatter"},
   NestAdapter       |-> {"NestAdapter", "SimulatorAdapter"},
   NestCell          |-> {"NestCell", "SimulationComponent"},
   NestConnection    |-> {"NestConnection", "SimulationComponent"},
   NestDevice        |-> {"NestDevice", "SimulationComponent"},
   NestEntity        |-> {"NestEntity", "NestDevice", "SimulationComponent"},
   UserAdapter       |-> {"UserAdapter", "SimulatorAdapter"},
   Plain             |-> {"Plain"}]

Classes == DOMAIN Ancestors

issubclass(c, parent) == parent \in Ancestors[c]

\* The importable modules and their __dict__: identifier -> object.  An
\* object is a class or something that is not a class (a function).
ClassObj(c) == [kind |-> "class", cls |-> c]

FunctionObj == [kind |-> "function", cls |-> "function"]

Modules ==
  (<<"scaffold", "placement">> :>
     [ParticlePlacement |-> ClassObj("ParticlePlacement"),
      Entities          |-> ClassObj("Entities"),
      PlacementStrategy |-> ClassObj("PlacementStrategy")]) @@
  (<<"scaffold", "morphologies">> :>
     [NoGeometry |-> ClassObj("NoGeometry")]) @@
  (<<"scaffold", "connectivity">> :>
     [AllToAll |-> ClassObj("AllToAll")]) @@
  (<<"scaffold", "output">> :>
     [HDF5Formatter |-> ClassObj("HDF5Formatter")]) @@
  (<<"userlib">> :>
     [Plain       |-> ClassObj("Plain"),
      UserAdapter |-> ClassObj("UserAdapter"),
      helper      |-> FunctionObj])

\* A qualified name "a.b.C" is the sequence of its dot-separated parts,
\* <<"a", "b", "C">>: what str.split(".") returns.
QName(parts) == [kind |-> "str", parts |-> parts]

Handle(c) == [kind |-> "class", cls |-> c]

isclass(x) == x.kind = "class"

\* An instance: its class and its __dict__.
NewInstance(c, parameters) == [class |-> c, dict |-> parameters]

SetAttr(obj, k, v) == [obj EXCEPT !.dict = Put(obj.dict, k, v)]

\* ScaffoldConfig.load_configurable_class.  A type handle is instantiated
\* as it is; a qualified name is split, its module imported (an empty
\* module name is a ValueError of __import__, an unknown module a
\* ModuleNotFoundError), the identifier looked up in the module's __dict__
\* and the class checked against parent_class (issubclass of a non-class is
\* a TypeError).
load_configurable_class(name, configured_class_name, parent_class, parameters) ==
  IF isclass(configured_class_name)
  THEN Ok(SetAttr(NewInstance(configured_class_name.cls, parameters), "name", name))
  ELSE LET class_parts == configured_class_name.parts
           class_name  == class_parts[Len(class_parts)]
           module_name == SubSeq(class_parts, 1, Len(class_parts) - 1)
       IN  IF module_name = <<>> THEN Err("ValueError")
           ELSE IF module_name \notin DOMAIN Modules THEN Err("ModuleNotFoundError")
           ELSE IF ~Has(Modules[module_name], class_name)
                THEN Err("ConfigurableClassNotFoundException")
           ELSE LET class_ref == Modules[module_name][class_name]
                IN  IF class_ref.kind # "class" THEN Err("TypeError")
                    ELSE IF ~issubclass(class_ref.cls, parent_class)
                         THEN Err("DynamicClassException")
                    ELSE Ok(SetAttr(NewInstance(class_ref.cls, parameters), "name", name))

\* ScaffoldConfig.fill_configurable_class: every key of conf that is not
\* excluded is copied onto the object's __dict__.
fill_configurable_class(obj, conf, excluded) ==
  [obj EXCEPT !.dict =
     [k \in (DOMAIN obj.dict) \cup ((DOMAIN conf) \ excluded) |->
        IF k \in (DOMAIN conf) \ excluded THEN conf[k] ELSE obj.dict[k]]]


(***************************************************************************)
(* Results of a handler: the configuration object as the handler left it,  *)
(* and the exception it raised if it raised one.                           *)
(***************************************************************************)
Done(self) == [ok |-> TRUE, err |-> "", self |-> self]

Fail(e, self) == [ok |-> FALSE, err |-> e, self |-> self]

(***************************************************************************)
(* Layers.                                                                 *)
(***************************************************************************)
\* models.Layer(name, origin, dimensions): a layer scales with the volume
\* unless told otherwise.
Layer(name, origin, dimensions) ==
  [name |-> name, origin |-> origin, dimensions |-> dimensions,
   scaling |-> TRUE, xz_center |-> FALSE]

\* Layer.thickness: the Y extent.
thickness(layer) == layer.dimensions[2]

\* Layer.volume: the product of the three extents.
volume(layer) ==
  RMul(layer.dimensions[1], RMul(layer.dimensions[2], layer.dimensions[3]))

\* ScaffoldConfig.add_layer
add_layer(self, layer) ==
  [self EXCEPT
     !.layers = Put(self.layers, layer.name, layer),
     !.layer_order = IF Has(self.layers, layer.name) THEN @ ELSE Append(@, layer.name),
     !.layer_map = Append(@, layer.name)]

\* The stack block of init_layer (lines 604-633): the result carries the
\* stacks as the block left them, also when it raises.
init_layer_stack(stacks, name, config) ==
  IF ~Has(config, "stack") THEN [ok |-> TRUE, stacks |-> stacks]
  ELSE
    LET stack_config == config.stack IN
    IF ~Has(stack_config, "stack_id") THEN [ok |-> FALSE, stacks |-> stacks]
    ELSE
      LET stack_id == stack_config.stack_id
          stacks1  == IF Has(stacks, stack_id) THEN stacks
                      ELSE Put(stacks, stack_id, [layers |-> EmptyDict])
      IN
      IF ~Has(stack_config, "position_in_stack")
      THEN [ok |-> FALSE, stacks |-> stacks1]
      ELSE
        LET stack2 == [stacks1[stack_id] EXCEPT
                         !.layers = Put(@, stack_config.position_in_stack, name)]
            stacks2 == Put(stacks1, stack_id, stack2)
        IN
        IF ~Has(stack_config, "position") THEN [ok |-> TRUE, stacks |-> stacks2]
        ELSE IF Has(stack2, "position") THEN [ok |-> FALSE, stacks |-> stacks2]
        ELSE [ok |-> TRUE,
              stacks |-> Put(stacks2, stack_id,
                             stack2 @@ [position |-> stack_config.position])]

\* xz_scale as init_layer leaves it in the section: a scalar becomes a
\* two-element list (line 648).
xz_scale_list(config) ==
  IF ~Has(config, "xz_scale") THEN <<R(1), R(1)>>
  ELSE IF config.xz_scale.kind = "scalar"
       THEN <<config.xz_scale.v, config.xz_scale.v>>
       ELSE config.xz_scale.v

\* A variant of init_layer without the check of line 581: a section with
\* neither thickness nor volume_scale gives a layer of thickness 0.
init_layer_unchecked(self, name, config) ==
  LET thick   == IF Has(config, "thickness") THEN config.thickness ELSE R(0)
      origin0 == IF ~Has(config, "position") THEN <<R(0), R(0), R(0)>>
                 ELSE config.position
  IN
  IF Len(origin0) # 3 THEN Fail("Exception", self) @@ [config |-> config]
  ELSE
    LET st    == init_layer_stack(self._layer_stacks, name, config)
        self1 == [self EXCEPT !._layer_stacks = st.stacks]
    IN
    IF ~st.ok THEN Fail("Exception", self1) @@ [config |-> config]
    ELSE
      LET xzScale    == xz_scale_list(config)
          config1    == IF Has(config, "xz_scale")
                        THEN [config EXCEPT !.xz_scale = [kind |-> "list", v |-> xzScale]]
                        ELSE config
          dimensions == <<RMul(self.X, xzScale[1]), thick, RMul(self.Z, xzScale[2])>>
          centered   == Has(config, "xz_center") /\ config.xz_center = TRUE
          origin     == IF centered
                        THEN <<RDiv(RSub(self.X, dimensions[1]), R(2)),
                               origin0[2],
                               RDiv(RSub(self.Z, dimensions[3]), R(2))>>
                        ELSE origin0
          layer      == [Layer(name, origin, dimensions) EXCEPT !.xz_center = centered]
      IN  Done(add_layer(self1, layer)) @@ [config |-> config1]

\* JSONConfig.init_layer.  The result also holds the section, which the
\* handler rewrites (xz_scale).
init_layer(self, name, config) ==
  IF ~Has(config, "thickness") /\ ~Has(config, "volume_scale")
  THEN Fail("ConfigurationException", self) @@ [config |-> config]
  ELSE
    LET thick   == IF Has(config, "thickness") THEN config.thickness ELSE R(0)
        origin0 == IF ~Has(config, "position") THEN <<R(0), R(0), R(0)>>
                   ELSE config.position
    IN
    IF Len(origin0) # 3 THEN Fail("Exception", self) @@ [config |-> config]
    ELSE
      LET st    == init_layer_stack(self._layer_stacks, name, config)
          self1 == [self EXCEPT !._layer_stacks = st.stacks]
      IN
      IF ~st.ok THEN Fail("Exception", self1) @@ [config |-> config]
      ELSE
        LET xzScale    == xz_scale_list(config)
            config1    == IF Has(config, "xz_scale")
                          THEN [config EXCEPT !.xz_scale = [kind |-> "list", v |-> xzScale]]
                          ELSE config
            dimensions == <<RMul(self.X, xzScale[1]), thick, RMul(self.Z, xzScale[2])>>
            centered   == Has(config, "xz_center") /\ config.xz_center = TRUE
            origin     == IF centered
                          THEN <<RDiv(RSub(self.X, dimensions[1]), R(2)),
                                 origin0[2],
                                 RDiv(RSub(self.Z, dimensions[3]), R(2))>>
                          ELSE origin0
            layer      == [Layer(name, origin, dimensions) EXCEPT !.xz_center = centered]
        IN  Done(add_layer(self1, layer)) @@ [config |-> config1]

\* The volumes of the reference layers, in the order of scale_from_layers
\* (line 870).
RECURSIVE reference_volumes(_, _)
reference_volumes(layers, reference_layers) ==
  IF reference_layers = <<>> THEN <<>>
  ELSE <<volume(layers[reference_layers[1]])>>
         \o reference_volumes(layers, Tail(reference_layers))

\* A variant of scaled_dimensions that computes the normalised size as the
\* comment of line 899 writes it: volume / volume_scale * prod(ratios).
scaled_dimensions_as_commented(layers, config) ==
  LET volume_scale     == config.volume_scale
      reference_layers == config.scale_from_layers
      ratios0          == IF Has(config, "volume_dimension_ratio")
                          THEN config.volume_dimension_ratio
                          ELSE <<R(1), R(1), R(1)>>
      dimension_ratios == [i \in 1..3 |-> RDiv(ratios0[i], ratios0[2])]
      volume_reference_layers == SeqSum(reference_volumes(layers, reference_layers))
      prod == RMul(dimension_ratios[1], RMul(dimension_ratios[2], dimension_ratios[3]))
      normalized_size == Cbrt(RMul(RDiv(volume_reference_layers, volume_scale), prod))
  IN  [i \in 1..3 |-> RMul(normalized_size, dimension_ratios[i])]

\* The dimensions finalize_layers gives a volume-scaled layer (lines
\* 862-907): the ratios are normalised to the Y ratio, and the normalised
\* size is the cube root of the reference volume over volume_scale times the
\* product of the ratios.
scaled_dimensions(layers, config) ==
  LET volume_scale     == config.volume_scale
      reference_layers == config.scale_from_layers
      ratios0          == IF Has(config, "volume_dimension_ratio")
                          THEN config.volume_dimension_ratio
                          ELSE <<R(1), R(1), R(1)>>
      dimension_ratios == [i \in 1..3 |-> RDiv(ratios0[i], ratios0[2])]
      volume_reference_layers == SeqSum(reference_volumes(layers, reference_layers))
      prod == RMul(dimension_ratios[1], RMul(dimension_ratios[2], dimension_ratios[3]))
      normalized_size == Cbrt(RDiv(volume_reference_layers, RMul(volume_scale, prod)))
  IN  [i \in 1..3 |-> RMul(normalized_size, dimension_ratios[i])]

\* The first loop of finalize_layers (lines 851-907) from the i-th layer of
\* self.layers on.  A missing scale_from_layers reaches the raise of line
\* 857, whose message reads the unbound local `name`: a NameError.
RECURSIVE finalize_layer_volumes(_, _, _)
finalize_layer_volumes(self, parsed_layers, i) ==
  IF i > Len(self.layer_order) THEN Done(self)
  ELSE
    LET name   == self.layer_order[i]
        config == parsed_layers[name]
    IN
    IF ~Has(config, "volume_scale")
    THEN finalize_layer_volumes(self, parsed_layers, i + 1)
    ELSE IF ~Has(config, "scale_from_layers") THEN Fail("NameError", self)
    ELSE IF \E r \in Range(config.scale_from_layers) : ~Has(self.layers, r)
         THEN Fail("KeyError", self)
    ELSE finalize_layer_volumes(
           [self EXCEPT !.layers[name].dimensions =
              scaled_dimensions(self.layers, config)],
           parsed_layers, i + 1)

\* One stack (lines 912-918): the layers of the slots at or above `from`, in
\* ascending slot order, are put on the roof, which rises by their thickness.
RECURSIVE place_stack(_, _, _, _)
place_stack(layers, slots, todo, stack_roof) ==
  IF todo = {} THEN layers
  ELSE
    LET id   == CHOOSE k \in todo : \A j \in todo : k <= j
        name == slots[id]
    IN  place_stack([layers EXCEPT ![name].origin[2] = stack_roof],
                    slots, todo \ {id},
                    RAdd(stack_roof, thickness(layers[name])))

\* The second loop of finalize_layers (lines 909-918) over the stacks in
\* `todo`.  A layer is in one stack at most, so the order among the stacks
\* does not show.
RECURSIVE finalize_layer_stacks(_, _)
finalize_layer_stacks(self, todo) ==
  IF todo = {} THEN self
  ELSE
    LET sid    == CHOOSE k \in todo : \A j \in todo : k <= j
        stack0 == self._layer_stacks[sid]
        stack  == IF Has(stack0, "position") THEN stack0
                  ELSE stack0 @@ [position |-> <<R(0), R(0), R(0)>>]
    IN  finalize_layer_stacks(
          [self EXCEPT
             !._layer_stacks[sid] = stack,
             !.layers = place_stack(@, stack.layers, DOMAIN stack.layers,
                                    stack.position[2])],
          todo \ {sid})

\* A variant of finalize_layers that places the stacks before it sizes the
\* volume-scaled layers.
finalize_layers_stacks_first(self, parsed_layers) ==
  finalize_layer_volumes(finalize_layer_stacks(self, DOMAIN self._layer_stacks),
                         parsed_layers, 1)

\* A variant of finalize_layers whose first loop passes over the first
\* layer of self.layers.
finalize_layers_from_second(self, parsed_layers) ==
  LET r == finalize_layer_volumes(self, parsed_layers, 2)
  IN  IF ~r.ok THEN r
      ELSE Done(finalize_layer_stacks(r.self, DOMAIN r.self._layer_stacks))

\* JSONConfig.finalize_layers
finalize_layers(self, parsed_layers) ==
  LET r == finalize_layer_volumes(self, parsed_layers, 1)
  IN  IF ~r.ok THEN r
      ELSE Done(finalize_layer_stacks(r.self, DOMAIN r.self._layer_stacks))

\* ScaffoldConfig.resize; None for an argument means it was not given.
None == <<>>

resize_layer(layer, scaling_x, scaling_z, X, Z) ==
  LET dims == IF layer.scaling
              THEN <<FMul(layer.dimensions[1], scaling_x),
                     layer.dimensions[2],
                     FMul(layer.dimensions[3], scaling_z)>>
              ELSE layer.dimensions
      orig == IF layer.xz_center
              THEN <<FSub(FDiv(X, R(2)), FDiv(dims[1], R(2))),
                     layer.origin[2],
                     FSub(FDiv(Z, R(2)), FDiv(dims[3], R(2)))>>
              ELSE layer.origin
  IN  [layer EXCEPT !.dimensions = dims, !.origin = orig]

\* A variant of resize that does not store the new extents.
resize_without_store(self, X, Z) ==
  LET scaling_x == IF X # None THEN FDiv(X, self.X) ELSE R(1)
      scaling_z == IF Z # None THEN FDiv(Z, self.Z) ELSE R(1)
      newX == IF X # None THEN X ELSE self.X
      newZ == IF Z # None THEN Z ELSE self.Z
  IN  [self EXCEPT
         !.layers = [n \in DOMAIN self.layers |->
                       resize_layer(self.layers[n], scaling_x, scaling_z, newX, newZ)]]

\* A division by a zero extent raises ZeroDivisionError where it stands:
\* before anything is written (X), or after self.X was written (Z).
resize(self, X, Z) ==
  LET scaling_x == IF X # None THEN FDiv(X, self.X) ELSE R(1)
      scaling_z == IF Z # None THEN FDiv(Z, self.Z) ELSE R(1)
      newX == IF X # None THEN X ELSE self.X
      newZ == IF Z # None THEN Z ELSE self.Z
  IN  IF X # None /\ self.X = R(0) THEN self
      ELSE IF Z # None /\ self.Z = R(0) THEN [self EXCEPT !.X = newX]
      ELSE [self EXCEPT
              !.X = newX,
              !.Z = newZ,
              !.layers = [n \in DOMAIN self.layers |->
                            resize_layer(self.layers[n], scaling_x, scaling_z,
                                         newX, newZ)]]

(***************************************************************************)
(* The helpers of scaffold.helpers that the loader uses.                   *)
(***************************************************************************)
\* assert_attr: the value of a required attribute.
assert_attr_ok(section, attr) == Has(section, attr)

\* assert_attr_array: a required attribute that is a list.
assert_attr_array_ok(section, attr) == Has(section, attr) /\ section[attr].kind = "list"

\* A JSON scalar is [t |-> "int" | "float" | "str" | "text", v |-> n]; "str"
\* is a string that float() parses to n, "text" one that it does not parse.
\* assert_float: float(val), or a configuration error.
assert_float_ok(val) == val.t \in {"int", "float", "str"}

assert_float(val) == [t |-> "float", v |-> val.v]

\* assert_strictly_one: the attributes of attrs present in the section.
present_attrs(section, attrs) == {a \in attrs : Has(section, a)}

\* PlacementStrategy.is_entities: whether the class places entities.
is_entities(placement) == placement.class = "Entities"

\* A variant of DensityAttrs that leaves count to the copied keys.
DensityAttrs_without_count ==
  {"density", "planar_density", "placement_count_ratio", "density_ratio"}

DensityAttrs ==
  {"density", "planar_density", "placement_count_ratio", "density_ratio", "count"}

(***************************************************************************)
(* Cell types.                                                             *)
(***************************************************************************)
\* JSONConfig.init_placement.  val is the placement when the result is ok.
init_placement(self, section, cell_type_name) ==
  LET name == <<cell_type_name, "_placement">> IN
  IF ~assert_attr_ok(section, "class") THEN Fail("ConfigurationException", self)
  ELSE
    LET loaded == load_configurable_class(name, section.class, "PlacementStrategy", EmptyDict) IN
    IF ~loaded.ok
    THEN Fail(IF loaded.err = "ConfigurableClassNotFoundException"
              THEN "Exception" ELSE loaded.err, self)
    ELSE IF ~assert_attr_ok(section, "layer") THEN Fail("ConfigurationException", self)
    ELSE
      LET p1 == SetAttr(loaded.val, "layer", section.layer) IN
      IF ~is_entities(p1) /\ ~(assert_attr_ok(section, "soma_radius")
                               /\ assert_float_ok(section.soma_radius))
      THEN Fail("ConfigurationException", self)
      ELSE
        LET p2 == IF is_entities(p1) THEN p1
                  ELSE SetAttr(SetAttr(p1, "soma_radius", assert_float(section.soma_radius)),
                               "radius", assert_float(section.soma_radius))
            found == present_attrs(section, DensityAttrs)
        IN
        IF Cardinality(found) # 1 THEN Fail("ConfigurationException", self)
        ELSE
          LET density_attr == CHOOSE a \in found : TRUE
              density_value == section[density_attr]
          IN
          IF ~assert_float_ok(density_value) THEN Fail("ConfigurationException", self)
          ELSE
            LET p3 == SetAttr(p2, density_attr, assert_float(density_value))
                relative == density_attr \in {"placement_count_ratio", "density_ratio"}
            IN
            IF relative /\ ~assert_attr_ok(section, "placement_relative_to")
            THEN Fail("ConfigurationException", self)
            ELSE
              LET p4 == IF relative
                        THEN SetAttr(p3, "placement_relative_to", section.placement_relative_to)
                        ELSE p3
                  placement == fill_configurable_class(p4, section,
                                 {"class", "layer", "soma_radius", "density",
                                  "planar_density", "placement_count_ratio",
                                  "density_ratio"})
              IN  Done([self EXCEPT !.placement_strategies = Put(@, name, placement)])
                    @@ [val |-> placement]

\* JSONConfig.init_morphology
init_morphology(self, section, cell_type_name) ==
  LET name == <<cell_type_name, "_morphology">> IN
  IF ~assert_attr_ok(section, "class") THEN Fail("ConfigurationException", self)
  ELSE
    LET loaded == load_configurable_class(name, section.class, "Morphology", EmptyDict) IN
    IF ~loaded.ok THEN Fail(loaded.err, self)
    ELSE
      LET morphology == fill_configurable_class(loaded.val, section, {"class"})
      IN  Done([self EXCEPT !.morphologies = Put(@, name, morphology)])
            @@ [val |-> morphology]

\* ScaffoldConfig.add_cell_type
add_cell_type(self, cell_type) ==
  [self EXCEPT !.cell_types = Put(@, cell_type.name, cell_type),
               !.cell_type_map = Append(@, cell_type.name)]

\* PlottingConfig and the plotting block of init_cell_type.
plotting_config(name, section) ==
  IF ~Has(section, "plotting")
  THEN [label |-> name, color |-> "#000000", opacity |-> R(1)]
  ELSE [label   |-> IF Has(section.plotting, "display_name")
                    THEN section.plotting.display_name ELSE name,
        color   |-> IF Has(section.plotting, "color")
                    THEN section.plotting.color ELSE "#000000",
        opacity |-> IF Has(section.plotting, "opacity")
                    THEN section.plotting.opacity ELSE R(1)]

\* JSONConfig.init_cell_type
init_cell_type(self, name, section) ==
  IF ~assert_attr_ok(section, "placement") THEN Fail("ConfigurationException", self)
  ELSE
    LET pl == init_placement(self, section.placement, name) IN
    IF ~pl.ok THEN Fail(pl.err, pl.self)
    ELSE
      LET entity == Has(section, "entity") /\ section.entity
          base   == [name |-> name, placement |-> pl.val, entity |-> entity,
                     plotting |-> plotting_config(name, section)]
      IN
      IF entity THEN Done(add_cell_type(pl.self, base))
      ELSE IF ~assert_attr_ok(section, "morphology")
           THEN Fail("ConfigurationException", pl.self)
      ELSE
        LET mo == init_morphology(pl.self, section.morphology, name) IN
        IF ~mo.ok THEN Fail(mo.err, mo.self)
        ELSE Done(add_cell_type(mo.self, base @@ [morphology |-> mo.val]))

\* JSONConfig.finalize_cell_type
finalize_cell_type(self, cell_type_name, section) == Done(self)

(***************************************************************************)
(* Connection types.                                                       *)
(***************************************************************************)
\* JSONConfig.init_connection
init_connection(self, name, section) ==
  IF ~assert_attr_ok(section, "class") THEN Fail("ConfigurationException", self)
  ELSE
    LET loaded == load_configurable_class(name, section.class, "ConnectionStrategy", EmptyDict) IN
    IF ~loaded.ok THEN Fail(loaded.err, self)
    ELSE
      LET c1 == fill_configurable_class(loaded.val, section,
                  {"class", "from_cell_types", "to_cell_types", "simulation"})
      IN
      IF ~assert_attr_array_ok(section, "from_cell_types")
         \/ ~assert_attr_array_ok(section, "to_cell_types")
      THEN Fail("ConfigurationException", self)
      ELSE
        LET connection == SetAttr(SetAttr(c1, "_from_cell_types", section.from_cell_types.v),
                                  "_to_cell_types", section.to_cell_types.v)
        IN  Done([self EXCEPT !.connection_types = Put(@, name, connection)])

\* A variant of resolve_cell_types that passes over a reference to an unknown
\* cell type instead of raising.
RECURSIVE resolve_cell_types_lenient(_, _, _, _, _, _)
resolve_cell_types_lenient(cell_types, raw, i, default, types, compartments) ==
  IF i > Len(raw)
  THEN [ok |-> TRUE, err |-> "", types |-> types, compartments |-> compartments]
  ELSE
    LET connected_cell == raw[i] IN
    IF ~assert_attr_ok(connected_cell, "type")
    THEN [ok |-> FALSE, err |-> "ConfigurationException",
          types |-> types, compartments |-> compartments]
    ELSE IF ~Has(cell_types, connected_cell.type)
    THEN resolve_cell_types_lenient(cell_types, raw, i + 1, default, types, compartments)
    ELSE resolve_cell_types_lenient(cell_types, raw, i + 1, default,
           Append(types, cell_types[connected_cell.type]),
           Append(compartments,
                  IF Has(connected_cell, "compartments")
                  THEN connected_cell.compartments ELSE default))

\* A variant of resolve_cell_types that gives every reference the default
\* compartments, its own compartments or not.
RECURSIVE resolve_cell_types_defaulted(_, _, _, _, _, _)
resolve_cell_types_defaulted(cell_types, raw, i, default, types, compartments) ==
  IF i > Len(raw)
  THEN [ok |-> TRUE, err |-> "", types |-> types, compartments |-> compartments]
  ELSE
    LET connected_cell == raw[i] IN
    IF ~assert_attr_ok(connected_cell, "type")
    THEN [ok |-> FALSE, err |-> "ConfigurationException",
          types |-> types, compartments |-> compartments]
    ELSE IF ~Has(cell_types, connected_cell.type)
    THEN [ok |-> FALSE, err |-> "Exception", type |-> connected_cell.type,
          types |-> types, compartments |-> compartments]
    ELSE resolve_cell_types_defaulted(cell_types, raw, i + 1, default,
           Append(types, cell_types[connected_cell.type]),
           Append(compartments, default))

\* One loop of finalize_connection (lines 934-947, 949-960) from the i-th
\* raw reference on: the resolved cell types and their compartments so far.
RECURSIVE resolve_cell_types(_, _, _, _, _, _)
resolve_cell_types(cell_types, raw, i, default, types, compartments) ==
  IF i > Len(raw)
  THEN [ok |-> TRUE, err |-> "", types |-> types, compartments |-> compartments]
  ELSE
    LET connected_cell == raw[i] IN
    IF ~assert_attr_ok(connected_cell, "type")
    THEN [ok |-> FALSE, err |-> "ConfigurationException",
          types |-> types, compartments |-> compartments]
    ELSE IF ~Has(cell_types, connected_cell.type)
    THEN [ok |-> FALSE, err |-> "Exception", type |-> connected_cell.type,
          types |-> types, compartments |-> compartments]
    ELSE resolve_cell_types(cell_types, raw, i + 1, default,
           Append(types, cell_types[connected_cell.type]),
           Append(compartments,
                  IF Has(connected_cell, "compartments")
                  THEN connected_cell.compartments ELSE default))

\* The node name of finalize_connection (line 927), as the parts between
\* its dots: the placeholder is never filled in with the connection's name.
node_name == <<"connection_types", "{}">>

\* The message of the exception of lines 938-942 and 952-954:
\* "Unknown cell type '<type>' in '<node_name>.<attr>'".
unknown_cell_type(type, connection_name, attr) ==
  [text |-> "Unknown cell type", type |-> type, path |-> node_name \o <<attr>>]

\* What finalize_connection raises when a loop failed with `r`.
connection_error(r, connection_name, attr, self) ==
  IF r.err = "Exception"
  THEN Fail(r.err, self) @@ [msg |-> unknown_cell_type(r.type, connection_name, attr)]
  ELSE Fail(r.err, self)

\* JSONConfig.finalize_connection
finalize_connection(self, connection_name, section) ==
  LET connection == self.connection_types[connection_name]
      from == resolve_cell_types(self.cell_types, connection.dict._from_cell_types,
                                 1, <<"axon">>, <<>>, <<>>)
  IN
  IF ~from.ok THEN connection_error(from, connection_name, "from_cell_types", self)
  ELSE
    LET to == resolve_cell_types(self.cell_types, connection.dict._to_cell_types,
                                 1, <<"dendrites">>, <<>>, <<>>)
    IN
    IF ~to.ok THEN connection_error(to, connection_name, "to_cell_types", self)
    ELSE Done([self EXCEPT !.connection_types[connection_name].dict =
                 [k \in (DOMAIN @) \cup {"from_cell_types", "to_cell_types",
                                         "from_cell_compartments", "to_cell_compartments"} |->
                    CASE k = "from_cell_types" -> from.types
                      [] k = "to_cell_types" -> to.types
                      [] k = "from_cell_compartments" -> from.compartments
                      [] k = "to_cell_compartments" -> to.compartments
                      [] OTHER -> @[k]]])

(***************************************************************************)
(* Simulations.                                                            *)
(***************************************************************************)
ComponentTypes == <<"cell_models", "connection_models", "devices", "entities">>

\* NestAdapter.configuration_classes (nest.py lines 336-341); a registered
\* adapter that derives from SimulatorAdapter names the same component
\* classes here.
configuration_classes ==
  [cell_models |-> "NestCell", connection_models |-> "NestConnection",
   devices |-> "NestDevice", entities |-> "NestEntity"]

\* JSONConfig.init_simulation_component, and what init_component adds to it
\* (lines 800-808): the component is an instance of the adapter's component
\* class, holding the section's keys, its simulation and its node path.
init_component(simulation_name, component_type, component_name, component_config) ==
  LET loaded == load_configurable_class(component_name,
                  Handle(configuration_classes[component_type]),
                  "SimulationComponent", [adapter |-> simulation_name])
      filled == fill_configurable_class(loaded.val, component_config, {})
  IN  SetAttr(SetAttr(filled, "simulation", simulation_name),
              "node_name", <<"simulations", simulation_name, component_type>>)

\* load_attr as init_simulation calls it (no finalizer): the components of
\* one sub-collection.
load_components(simulation_name, section, component_type) ==
  [n \in DOMAIN section[component_type] |->
     init_component(simulation_name, component_type, n, section[component_type][n])]

\* The sub-collections init_simulation loads: the first three are required
\* (load_attr raises on a missing key), entities only when present.
RECURSIVE load_component_types(_, _, _)
load_component_types(simulation, section, i) ==
  IF i > Len(ComponentTypes) THEN Ok(simulation)
  ELSE
    LET t == ComponentTypes[i] IN
    IF ~Has(section, t)
    THEN IF t = "entities" THEN load_component_types(simulation, section, i + 1)
         ELSE Err("Exception")
    ELSE load_component_types(
           SetAttr(simulation, t, load_components(simulation.dict.name, section, t)),
           section, i + 1)

\* JSONConfig.init_simulation.  An adapter class without
\* get_configuration_classes (one that does not derive from
\* SimulatorAdapter) raises AttributeError at line 794.
init_simulation(self, name, section) ==
  IF ~Has(section, "simulator") \/ ~Has(self.simulators, section.simulator)
  THEN Fail("ConfigurationException", self)
  ELSE
    LET simulator == self.simulators[section.simulator]
        loaded == load_configurable_class(name, Handle(simulator), "SimulatorAdapter", EmptyDict)
    IN
    IF ~loaded.ok THEN Fail(loaded.err, self)
    ELSE
      LET s1 == fill_configurable_class(loaded.val, section,
                  {"simulator", "cell_models", "connection_models", "devices", "entities"})
      IN
      IF ~issubclass(s1.class, "SimulatorAdapter") THEN Fail("AttributeError", self)
      ELSE
        LET r == load_component_types(s1, section, 1) IN
        IF ~r.ok THEN Fail(r.err, self)
        ELSE Done([self EXCEPT !.simulations = Put(@, name, r.val)])

\* JSONConfig.finalize_simulation
finalize_simulation(self, simulation_name, section) ==
  IF Has(self.simulations, simulation_name) THEN Done(self) ELSE Fail("KeyError", self)

(***************************************************************************)
(* The general and output sections.                                        *)
(***************************************************************************)
\* JSONConfig.load_general
load_general(self, config) ==
  IF ~Has(config, "network_architecture") THEN Fail("Exception", self)
  ELSE
    LET netw_config == config.network_architecture IN
    IF ~Has(netw_config, "simulation_volume_x") \/ ~Has(netw_config, "simulation_volume_z")
    THEN Fail("Exception", self)
    ELSE Done([self EXCEPT !.X = netw_config.simulation_volume_x,
                           !.Z = netw_config.simulation_volume_z])

\* JSONConfig.load_output
load_output(self, config) ==
  IF ~Has(config, "output") THEN Fail("Exception", self)
  ELSE
    LET output_config == config.output IN
    IF ~Has(output_config, "format") THEN Fail("Exception", self)
    ELSE
      LET loaded == load_configurable_class("output_formatter", output_config.format,
                                            "OutputFormatter", EmptyDict)
      IN
      IF ~loaded.ok THEN Fail(loaded.err, self)
      ELSE Done([self EXCEPT !.output_formatter =
                   fill_configurable_class(loaded.val, output_config, {"format"})])

(***************************************************************************)
(* The state.                                                              *)
(***************************************************************************)
VARIABLES
  parsed_config,  \* self._parsed_config: the document (init_layer rewrites it)
  cfg,            \* the configuration object under construction, then returned
  pc,             \* where JSONConfig.__init__ stands: [step, attr, i]
  raised,         \* the exception that ended the load, "" if none
  message,        \* what that exception says, where the model follows it
  calls,          \* the calls made so far: [op, attr, name, ok]
  resizes,        \* the number of resize calls made on the returned object
  call,           \* the last direct call of load_configurable_class
  adapter,        \* a NestAdapter: its connection models and how far it got
  heap,           \* the dictionaries that outlive a constructor, by identity
  configs,        \* the configuration objects constructed so far
  adapters,       \* the NestAdapter objects of the process, for the kernel lock
  lock_file,      \* the kernel lock file of the process
  exited          \* whether the interpreter has shut down

vars == <<parsed_config, cfg, pc, raised, message, calls, resizes, call, adapter, heap,
          configs, adapters, lock_file, exited>>

\* No adapter has been created, no configuration object constructed.
NoAdapter == [step |-> "none"]

NoHeap == EmptyDict

\* ScaffoldConfig.__init__ (lines 87-106), and the empty stack table of
\* line 428.  simulators is the caller's dictionary.
new_config(simulators) ==
  [cell_types |-> EmptyDict, cell_type_map |-> <<>>,
   layers |-> EmptyDict, layer_order |-> <<>>, layer_map |-> <<>>,
   connection_types |-> EmptyDict, morphologies |-> EmptyDict,
   placement_strategies |-> EmptyDict, simulations |-> EmptyDict,
   simulators |-> Put(simulators, "nest", "NestAdapter"),
   output_formatter |-> NewInstance("HDF5Formatter", EmptyDict),
   X |-> R(200), Z |-> R(200),
   _layer_stacks |-> EmptyDict]

(***************************************************************************)
(* The control flow of JSONConfig.__init__ and load_attr.                  *)
(***************************************************************************)
\* A variant of AttrOrder that loads the connection types before the cell
\* types.
AttrOrder_swapped == <<"layers", "connection_types", "cell_types", "simulations">>

\* The collections in the order __init__ loads them (lines 430-457).
AttrOrder == <<"layers", "cell_types", "connection_types", "simulations">>

\* single=True is passed for the layers only (line 435).
single(attr) == attr = "layers"

At(step, attr, i) == [step |-> step, attr |-> attr, i |-> i]

entries(config, attr) == config[attr].keys

\* What follows the load_attr call of a collection.
after_attr(attr) ==
  LET k == CHOOSE j \in DOMAIN AttrOrder : AttrOrder[j] = attr
  IN  IF k < Len(AttrOrder) THEN At("load_attr", AttrOrder[k + 1], 0)
      ELSE At("done", "", 0)

\* What follows the init loop of load_attr (lines 531-535).
after_inits(config, attr) ==
  IF single(attr) THEN At("final", attr, 0)
  ELSE IF Len(entries(config, attr)) > 0 THEN At("final", attr, 1)
  ELSE after_attr(attr)

\* A variant of load_attr_next that finalizes each entry right after its
\* init.
load_attr_interleaved(config, at) ==
  LET n == Len(entries(config, at.attr)) IN
  CASE at.step = "load_attr" ->
         IF n > 0 THEN At("init", at.attr, 1) ELSE after_inits(config, at.attr)
    [] at.step = "init" ->
         IF single(at.attr)
         THEN IF at.i < n THEN At("init", at.attr, at.i + 1)
              ELSE after_inits(config, at.attr)
         ELSE At("final", at.attr, at.i)
    [] at.step = "final" ->
         IF single(at.attr) \/ at.i >= n THEN after_attr(at.attr)
         ELSE At("init", at.attr, at.i + 1)

\* load_attr (lines 525-535): the step that follows the step `at` of a
\* collection: the key check, the i-th init or the i-th finalize.
load_attr_next(config, at) ==
  LET n == Len(entries(config, at.attr)) IN
  CASE at.step = "load_attr" ->
         IF n > 0 THEN At("init", at.attr, 1) ELSE after_inits(config, at.attr)
    [] at.step = "init" ->
         IF at.i < n THEN At("init", at.attr, at.i + 1)
         ELSE after_inits(config, at.attr)
    [] at.step = "final" ->
         IF single(at.attr) \/ at.i >= n THEN after_attr(at.attr)
         ELSE At("final", at.attr, at.i + 1)

\* A variant of propagate that goes on after a failed step.
propagate_swallowed(ok, next) == next

\* An exception raised by a step is caught nowhere in load_attr or
\* __init__: it ends the load.
propagate(ok, next) == IF ok THEN next ELSE At("failed", "", 0)

\* No message, or one the model does not follow.
NoMessage == [text |-> "", type |-> "", path |-> <<>>]

\* The message of load_attr's exception (lines 526-528), JSONConfig passing
\* no node name: "Missing '<attr>' attribute in configuration.".
missing_attribute(attr) ==
  [text |-> "Missing attribute", type |-> attr, path |-> <<"configuration">>]

\* The effect of a step whose handler returned r.
Step(r, op, name, next) ==
  /\ cfg' = r.self
  /\ calls' = Append(calls, [op |-> op, attr |-> pc.attr, name |-> name, ok |-> r.ok])
  /\ pc' = propagate(r.ok, next)
  /\ raised' = IF r.ok THEN raised ELSE r.err
  /\ message' = IF r.ok THEN message ELSE IF Has(r, "msg") THEN r.msg ELSE NoMessage
  /\ UNCHANGED <<resizes, call, adapter, heap, configs, adapters, lock_file, exited>>

\* The entry a step of a collection is about.
entry_name == entries(parsed_config, pc.attr)[pc.i]

entry_section == parsed_config[pc.attr].items[entry_name]

(***************************************************************************)
(* The steps of a load.                                                    *)
(***************************************************************************)
LoadGeneral ==
  /\ pc.step = "load_general"
  /\ Step(load_general(cfg, parsed_config), "load_general", "",
          At("load_output", "output", 0))
  /\ UNCHANGED parsed_config

LoadOutput ==
  /\ pc.step = "load_output"
  /\ Step(load_output(cfg, parsed_config), "load_output", "",
          At("load_attr", AttrOrder[1], 0))
  /\ UNCHANGED parsed_config

\* A variant of LoadAttr that passes over a collection the document lacks.
LoadAttr_skipping ==
  /\ pc.step = "load_attr"
  /\ pc' = IF Has(parsed_config, pc.attr) THEN load_attr_next(parsed_config, pc)
           ELSE after_attr(pc.attr)
  /\ UNCHANGED <<parsed_config, cfg, raised, message, calls, resizes, call,
                 adapter, heap, configs, adapters, lock_file, exited>>

\* The key check of load_attr (line 525).
LoadAttr ==
  /\ pc.step = "load_attr"
  /\ IF Has(parsed_config, pc.attr)
     THEN /\ pc' = load_attr_next(parsed_config, pc)
          /\ UNCHANGED <<raised, message>>
     ELSE /\ pc' = At("failed", "", 0)
          /\ raised' = "Exception"
          /\ message' = missing_attribute(pc.attr)
  /\ UNCHANGED <<parsed_config, cfg, calls, resizes, call, adapter, heap, configs, adapters, lock_file, exited>>

InitLayer ==
  /\ pc.step = "init" /\ pc.attr = "layers"
  /\ LET r == init_layer(cfg, entry_name, entry_section)
     IN  /\ Step(r, "init", entry_name, load_attr_next(parsed_config, pc))
         /\ parsed_config' = [parsed_config EXCEPT !.layers.items[entry_name] = r.config]

FinalizeLayers ==
  /\ pc.step = "final" /\ pc.attr = "layers"
  /\ Step(finalize_layers(cfg, parsed_config.layers.items), "final", "",
          load_attr_next(parsed_config, pc))
  /\ UNCHANGED parsed_config

InitCellType ==
  /\ pc.step = "init" /\ pc.attr = "cell_types"
  /\ Step(init_cell_type(cfg, entry_name, entry_section), "init", entry_name,
          load_attr_next(parsed_config, pc))
  /\ UNCHANGED parsed_config

FinalizeCellType ==
  /\ pc.step = "final" /\ pc.attr = "cell_types"
  /\ Step(finalize_cell_type(cfg, entry_name, entry_section), "final", entry_name,
          load_attr_next(parsed_config, pc))
  /\ UNCHANGED parsed_config

InitConnection ==
  /\ pc.step = "init" /\ pc.attr = "connection_types"
  /\ Step(init_connection(cfg, entry_name, entry_section), "init", entry_name,
          load_attr_next(parsed_config, pc))
  /\ UNCHANGED parsed_config

FinalizeConnection ==
  /\ pc.step = "final" /\ pc.attr = "connection_types"
  /\ Step(finalize_connection(cfg, entry_name, entry_section), "final", entry_name,
          load_attr_next(parsed_config, pc))
  /\ UNCHANGED parsed_config

InitSimulation ==
  /\ pc.step = "init" /\ pc.attr = "simulations"
  /\ Step(init_simulation(cfg, entry_name, entry_section), "init", entry_name,
          load_attr_next(parsed_config, pc))
  /\ UNCHANGED parsed_config

FinalizeSimulation ==
  /\ pc.step = "final" /\ pc.attr = "simulations"
  /\ Step(finalize_simulation(cfg, entry_name, entry_section), "final", entry_name,
          load_attr_next(parsed_config, pc))
  /\ UNCHANGED parsed_config

(***************************************************************************)
(* After the load: the returned configuration can be resized.              *)
(***************************************************************************)
\* The arguments of resize the model tries: each of X and Z a new extent or
\* not given.
ResizeArgs ==
  {<<R(8), R(8)>>, <<R(2), None>>, <<None, R(2)>>, <<R(4), R(8)>>}

Resize(X, Z) ==
  /\ pc.step = "done"
  /\ resizes < MaxResizes
  /\ cfg' = resize(cfg, X, Z)
  /\ resizes' = resizes + 1
  /\ UNCHANGED <<parsed_config, pc, raised, message, calls, call, adapter, heap, configs, adapters, lock_file, exited>>

(***************************************************************************)
(* Documents.                                                              *)
(***************************************************************************)
\* A JSON object whose key order matters: its keys in document order and
\* its values.
Object(keys, items) == [keys |-> keys, items |-> items]

EmptyObject == Object(<<>>, EmptyDict)

JFloat(n) == [t |-> "float", v |-> n]

JInt(n) == [t |-> "int", v |-> n]

List(s) == [kind |-> "list", v |-> s]

HDF5Format == QName(<<"scaffold", "output", "HDF5Formatter">>)

\* The document without its collections, for a base volume of X by Z.
Document(X, Z, layers, cell_types, connection_types, simulations) ==
  [network_architecture |-> [simulation_volume_x |-> X, simulation_volume_z |-> Z],
   output |-> [format |-> HDF5Format],
   layers |-> layers,
   cell_types |-> cell_types,
   connection_types |-> connection_types,
   simulations |-> simulations]

NoCall == [made |-> FALSE]

\* No lock file: read_lock returns None.
NoFile == [exists |-> FALSE, multi |-> FALSE, suffixes |-> <<>>]

\* A process without adapters that lock the kernel.
NoLocks == adapters = <<>> /\ lock_file = NoFile /\ exited = FALSE

\* The state in which JSONConfig.__init__ starts on a document, with the
\* simulators dictionary of the caller.
Start(document, simulators) ==
  /\ parsed_config = document
  /\ cfg = new_config(simulators)
  /\ pc = At("load_general", "network_architecture", 0)
  /\ raised = ""
  /\ message = NoMessage
  /\ calls = <<>>
  /\ resizes = 0
  /\ call = NoCall

Load ==
  \/ LoadGeneral
  \/ LoadOutput
  \/ LoadAttr
  \/ InitLayer
  \/ FinalizeLayers
  \/ InitCellType
  \/ FinalizeCellType
  \/ InitConnection
  \/ FinalizeConnection
  \/ InitSimulation
  \/ FinalizeSimulation
  \/ \E a \in ResizeArgs : Resize(a[1], a[2])

(***************************************************************************)
(* The documents the model loads.  Each family varies one part of the      *)
(* document and keeps the rest plain.                                      *)
(***************************************************************************)
Names == <<"A", "B", "C", "D", "E", "F">>

\* The objects with the first n names as keys, in that order or reversed,
\* and a section of `sections` for each key.
Ascending(n) == [i \in 1..n |-> Names[i]]

Descending(n) == [i \in 1..n |-> Names[n + 1 - i]]

Objects(n, orders, sections) ==
  {Object(o, items) : o \in orders, items \in [{Names[i] : i \in 1..n} -> sections]}

\* --- cell types and connection types
PlacementSection ==
  [class |-> QName(<<"scaffold", "placement", "ParticlePlacement">>),
   layer |-> "A", soma_radius |-> JFloat(2), density |-> JFloat(1)]

CellSection ==
  [placement |-> PlacementSection,
   morphology |-> [class |-> QName(<<"scaffold", "morphologies", "NoGeometry">>)]]

EntitySection ==
  [entity |-> TRUE,
   placement |-> [class |-> QName(<<"scaffold", "placement", "Entities">>),
                  layer |-> "A", count |-> JInt(10)]]

CellSections ==
  {CellSection, EntitySection, [morphology |-> CellSection.morphology]}

CellTypeObjects ==
  UNION {Objects(n, {Ascending(n), Descending(n)}, CellSections) : n \in 0..MaxCellTypes}

Ref(type) == [type |-> type]

ConnectionSection(from, to) ==
  [class |-> QName(<<"scaffold", "connectivity", "AllToAll">>),
   from_cell_types |-> List(from), to_cell_types |-> List(to)]

\* References to declared cell types in both declaration orders, to a cell
\* type that may be missing, and with compartments of their own.
ConnectionSections ==
  {ConnectionSection(<<Ref("A")>>, <<Ref("B")>>),
   ConnectionSection(<<Ref("B"), Ref("A")>>,
                     <<Ref("A") @@ [compartments |-> <<"soma">>]>>),
   ConnectionSection(<<Ref("A")>>, <<Ref("A"), Ref("zz")>>),
   ConnectionSection(<<>>, <<>>),
   [from_cell_types |-> List(<<Ref("A")>>), to_cell_types |-> List(<<Ref("A")>>)]}

ConnectionObjects ==
  UNION {Objects(n, {Ascending(n)}, ConnectionSections) : n \in 0..MaxConnections}

\* --- simulations
SimulationSection(simulator) ==
  [simulator |-> simulator, duration |-> JInt(100),
   cell_models |-> [A |-> [neuron_model |-> "iaf"]],
   connection_models |-> EmptyDict,
   devices |-> EmptyDict]

SimulationObjects ==
  {EmptyObject,
   Object(<<"A">>, [A |-> SimulationSection("nest")]),
   Object(<<"A">>, [A |-> SimulationSection("user")]),
   Object(<<"A", "B">>, [A |-> SimulationSection("nest"),
                         B |-> [simulator |-> "nest", cell_models |-> EmptyDict]])}

Simulators ==
  {EmptyDict, [user |-> "UserAdapter"], [user |-> "Plain"]}

\* --- layers
Thick(t) == [thickness |-> R(t)]

Scaled(s, from) == [volume_scale |-> R(s), scale_from_layers |-> from]

PlainLayers == Object(<<"A">>, [A |-> Thick(4)])

PlainCellTypes == Object(<<"A">>, [A |-> CellSection])

\* The base volume of the documents.
BaseX == R(4)

BaseZ == R(4)

PlainConnections ==
  Object(<<"A">>, [A |-> ConnectionSection(<<Ref("A")>>, <<Ref("A")>>)])

\* Documents that vary the cell types.
CellTypeDocuments ==
  {Document(BaseX, BaseZ, PlainLayers, c, PlainConnections, EmptyObject) :
     c \in CellTypeObjects}

\* Documents that vary the connection types, over cell types declared in
\* either order.
ConnectionDocuments ==
  {Document(BaseX, BaseZ, PlainLayers, c, k, EmptyObject) :
     c \in Objects(MaxCellTypes, {Ascending(MaxCellTypes), Descending(MaxCellTypes)},
                   {CellSection}),
     k \in ConnectionObjects}

\* Documents that vary the simulations, and documents without a section.
SimulationDocuments ==
  {Document(BaseX, BaseZ, PlainLayers, PlainCellTypes, PlainConnections, s) :
     s \in SimulationObjects}

FullDocument ==
  Document(BaseX, BaseZ, PlainLayers, PlainCellTypes, PlainConnections, EmptyObject)

Without(d, key) == [k \in (DOMAIN d) \ {key} |-> d[k]]

MissingSectionDocuments ==
  {Without(FullDocument, key) : key \in DOMAIN FullDocument}
  \cup {[FullDocument EXCEPT !.output = EmptyDict],
        [FullDocument EXCEPT !.output.format = QName(<<"userlib", "Plain">>)]}

\* --- layer families
LayerNames == {Names[i] : i \in 1..MaxLayers}

\* The k-th name after the i-th, cyclically.
Other(i, k) == Names[((i - 1 + k) % MaxLayers) + 1]

Stack(id, slot) == [stack |-> [stack_id |-> id, position_in_stack |-> slot]]

\* Layers sized from each other: by one other layer, by a later or an
\* earlier one, with a ratio, by two layers, or without scale_from_layers.
VolumeSections(i) ==
  {Thick(4),
   Scaled(1, <<Other(i, 1)>>),
   Scaled(1, <<Other(i, MaxLayers - 1)>>),
   Scaled(8, <<Other(i, 1)>>) @@ [volume_dimension_ratio |-> <<R(2), R(1), R(4)>>],
   Scaled(2, <<Other(i, 1), Other(i, MaxLayers - 1)>>),
   [volume_scale |-> R(1)]}

\* Layers of one stack, explicit or volume-scaled, at the slot of their
\* index or of the mirrored index, one of them giving the stack's position.
StackSections(i) ==
  {size @@ Stack(1, slot) :
     size \in {Thick(4), Scaled(8, <<Other(i, 1)>>)},
     slot \in {i - 1, MaxLayers - i}}
  \cup {[thickness |-> R(4),
         stack |-> [stack_id |-> 1, position_in_stack |-> i - 1,
                    position |-> <<R(0), R(2), R(0)>>]]}

\* Layers without a size among layers of a stack: with nothing but a
\* position, or with a stack block, with or without the stack's position.
BareSections(i) ==
  {Thick(4) @@ Stack(1, i - 1),
   [position |-> <<R(1), R(1), R(1)>>],
   Stack(1, i - 1),
   [stack |-> [stack_id |-> 1, position_in_stack |-> i - 1,
               position |-> <<R(0), R(2), R(0)>>]],
   [xz_center |-> TRUE, stack |-> [stack_id |-> 2, position_in_stack |-> 0]]}

\* Layers centered on the XZ plane, scaled in XZ or volume-scaled.
CenterSections(i) ==
  {Thick(4),
   [thickness |-> R(4), xz_center |-> TRUE,
    xz_scale |-> [kind |-> "scalar", v |-> Rat(1, 2)]],
   [thickness |-> R(4), xz_center |-> TRUE, position |-> <<R(1), R(1), R(1)>>,
    xz_scale |-> [kind |-> "list", v |-> <<Rat(1, 2), R(1)>>]],
   Scaled(8, <<Other(i, 1)>>) @@ [xz_center |-> TRUE],
   [thickness |-> R(4), position |-> <<R(1), R(1)>>]}

\* The layer objects of a family: the first MaxLayers names in order, the
\* i-th with one of the family's sections for i.
LayerObjects(Sections(_)) ==
  LET All == UNION {Sections(i) : i \in 1..MaxLayers}
  IN  {Object(Ascending(MaxLayers), items) :
         items \in {f \in [LayerNames -> All] :
                      \A i \in 1..MaxLayers : f[Names[i]] \in Sections(i)}}

\* The init loop of load_attr over the layers, from the i-th on, as one
\* function.
RECURSIVE init_layers(_, _, _)
init_layers(self, object, i) ==
  IF i > Len(object.keys) THEN Done(self)
  ELSE LET r == init_layer(self, object.keys[i], object.items[object.keys[i]])
       IN  IF r.ok THEN init_layers(r.self, object, i + 1) ELSE Fail(r.err, r.self)

\* load_attr over the layers as one function: the configuration after it.
loaded_layers(X, Z, object) ==
  LET r == init_layers([new_config(EmptyDict) EXCEPT !.X = X, !.Z = Z], object, 1)
  IN  IF r.ok THEN finalize_layers(r.self, object.items) ELSE r

\* Every extent and origin of every layer is a rational.
AllNumbers(layers) ==
  \A n \in DOMAIN layers : \A i \in 1..3 :
     IsNumber(layers[n].dimensions[i]) /\ IsNumber(layers[n].origin[i])

Representable(object) == AllNumbers(loaded_layers(BaseX, BaseZ, object).self.layers)

\* A layer of half the volume of another: volume_scale 2 from a layer of
\* 4 x 8 x 4.
HalfVolumeLayers ==
  Object(<<"A", "B">>,
         [A |-> Thick(8),
          B |-> Scaled(2, <<"A">>) @@ [volume_dimension_ratio |-> <<R(1), R(1), R(1)>>]])

LayerDocuments ==
  {Document(BaseX, BaseZ, l, EmptyObject, EmptyObject, EmptyObject) :
     l \in {o \in LayerObjects(VolumeSections) \cup LayerObjects(StackSections)
                  \cup LayerObjects(CenterSections) \cup {HalfVolumeLayers} :
              Representable(o)}}

BareDocuments ==
  {Document(BaseX, BaseZ, l, EmptyObject, EmptyObject, EmptyObject) :
     l \in LayerObjects(BareSections)}

\* --- placement sections
DensityKeys ==
  {"density", "planar_density", "count", "placement_count_ratio", "density_ratio"}

Text == [t |-> "text", v |-> 0]

Morphology == [class |-> QName(<<"scaffold", "morphologies", "NoGeometry">>)]

PlacementOf(class) == [class |-> class, layer |-> "A"]

\* Every subset of the density keys, with and without a reference cell type.
DensitySections ==
  {[placement |-> PlacementOf(PlacementSection.class) @@ [soma_radius |-> JFloat(2)]
                    @@ [k \in keys |-> JFloat(1)] @@ relation,
    morphology |-> Morphology] :
     keys \in SUBSET DensityKeys,
     relation \in {EmptyDict, [placement_relative_to |-> "B"]}}

\* One density key, with a float, an integer or a numeric string, and the
\* reference cell type of the ratios.
ModeSections ==
  {[placement |-> PlacementOf(PlacementSection.class) @@ [soma_radius |-> JFloat(2)]
                    @@ [k \in {key} |-> value] @@ [placement_relative_to |-> "B"],
    morphology |-> Morphology] :
     key \in DensityKeys,
     value \in {JFloat(1), JInt(10), [t |-> "str", v |-> 3]}}

\* Placement classes that do not load: an identifier the module lacks, a
\* module that does not exist, a name without module, a class of another
\* interface, and a module attribute that is no class.
UnloadableClasses ==
  {QName(<<"scaffold", "placement", "Missing">>), QName(<<"nomodule", "Plain">>),
   QName(<<"Plain">>), QName(<<"scaffold", "morphologies", "NoGeometry">>),
   QName(<<"userlib", "helper">>)}

ClassSections ==
  {[placement |-> PlacementOf(class) @@ [soma_radius |-> JFloat(2), density |-> JFloat(1)],
    morphology |-> Morphology] : class \in UnloadableClasses}

\* Cell types with and without the entity flag, over a placement class that
\* places cells or entities, with a soma radius that is missing, a number,
\* a numeric string or text.
SomaSections ==
  {entity @@ [placement |-> PlacementOf(QName(<<"scaffold", "placement", class>>))
                              @@ soma @@ [count |-> JInt(10)],
              morphology |-> Morphology] :
     entity \in {EmptyDict, [entity |-> TRUE], [entity |-> FALSE]},
     class \in {"ParticlePlacement", "Entities"},
     soma \in {EmptyDict} \cup {[soma_radius |-> v] :
                                   v \in {JFloat(2), [t |-> "str", v |-> 3], Text}}}

PlacementDocuments ==
  {Document(BaseX, BaseZ, PlainLayers, Object(<<"A">>, [A |-> section]),
            EmptyObject, EmptyObject) :
     section \in DensitySections \cup ClassSections \cup SomaSections
                   \cup ModeSections}

(***************************************************************************)
(* The specification of the loader.                                        *)
(***************************************************************************)
Documents ==
  CellTypeDocuments \cup ConnectionDocuments \cup SimulationDocuments
  \cup MissingSectionDocuments \cup LayerDocuments \cup PlacementDocuments
  \cup BareDocuments

Init ==
  \E document \in Documents, simulators \in Simulators :
     /\ (simulators # EmptyDict => document \in SimulationDocuments)
     /\ Start(document, simulators)
     /\ adapter = NoAdapter /\ heap = NoHeap /\ configs = <<>> /\ NoLocks

Next == Load

Spec == Init /\ [][Next]_vars

(***************************************************************************)
(* The specification of direct calls of load_configurable_class: every    *)
(* call draws its arguments anew.                                          *)
(***************************************************************************)
ClassNames ==
  {Handle(c) : c \in Classes}
  \cup {QName(m \o <<c>>) : m \in DOMAIN Modules,
                            c \in {"ParticlePlacement", "NoGeometry", "Plain",
                                   "UserAdapter", "helper", "Missing"}}
  \cup {QName(<<"nomodule", "Plain">>), QName(<<"Plain">>)}

DirectCall ==
  /\ \E configured_class_name \in ClassNames, parent_class \in Interfaces :
        call' = [made |-> TRUE,
                 configured_class_name |-> configured_class_name,
                 parent_class |-> parent_class,
                 result |-> load_configurable_class("x", configured_class_name,
                                                    parent_class, EmptyDict)]
  /\ UNCHANGED <<parsed_config, cfg, pc, raised, message, calls, resizes, adapter, heap, configs, adapters, lock_file, exited>>

InitClass ==
  /\ Start(FullDocument, EmptyDict)
  /\ adapter = NoAdapter /\ heap = NoHeap /\ configs = <<>> /\ NoLocks

NextClass == DirectCall

SpecClass == InitClass /\ [][NextClass]_vars

(***************************************************************************)
(* Properties.                                                             *)
(***************************************************************************)
\* The calls with the given op on the given collection among the first k.
CallsOf(op, attr, k) == {i \in 1..k : calls[i].op = op /\ calls[i].attr = attr}

Collections == {"layers", "cell_types", "connection_types", "simulations"}

EntryCount(attr) ==
  IF Has(parsed_config, attr) THEN Len(parsed_config[attr].keys) ELSE 0

\* C1: in a load_attr run over a collection, every init call of every entry
\* of the collection has been made before the first finalize call
\* (collection-level or per-entry), and no init call follows a finalize call
\* of the same collection.
C1_InitsBeforeFinalize ==
  \A j \in DOMAIN calls :
     calls[j].op = "final" =>
       /\ Cardinality(CallsOf("init", calls[j].attr, j)) = EntryCount(calls[j].attr)
       /\ \A i \in DOMAIN calls :
             (i > j /\ calls[i].attr = calls[j].attr) => calls[i].op # "init"

\* A load that finalized, entry by entry, a collection of two entries at least.
C1_Witness ==
  /\ pc.step = "done"
  /\ Cardinality(CallsOf("init", "connection_types", Len(calls))) >= 2
  /\ Cardinality(CallsOf("final", "connection_types", Len(calls))) >= 2
  /\ Cardinality(CallsOf("final", "layers", Len(calls))) = 1

SectionRank ==
  [network_architecture |-> 0, output |-> 1, layers |-> 2, cell_types |-> 3,
   connection_types |-> 4, simulations |-> 5]

\* Every init and finalize call of a collection is among the first k calls.
Completed(attr, k) ==
  /\ Cardinality(CallsOf("init", attr, k)) = EntryCount(attr)
  /\ Cardinality(CallsOf("final", attr, k)) =
       IF attr = "layers" THEN 1 ELSE EntryCount(attr)

\* C2: the sections are processed in the order general architecture, output,
\* layers, cell types, connection types, simulations: a step of a section is
\* made only after the general and output sections were loaded and every
\* init and finalize step of every earlier collection was made.
C2_SectionsInOrder ==
  \A j \in DOMAIN calls :
     /\ \A i \in 1..(j - 1) : SectionRank[calls[i].attr] <= SectionRank[calls[j].attr]
     /\ SectionRank[calls[j].attr] >= 1 => calls[1].op = "load_general"
     /\ SectionRank[calls[j].attr] >= 2 => calls[2].op = "load_output"
     /\ \A attr \in Collections :
           SectionRank[attr] < SectionRank[calls[j].attr] => Completed(attr, j - 1)

\* A load that reached the simulations after steps of all other sections.
C2_Witness ==
  /\ pc.step = "done"
  /\ \A attr \in Collections : CallsOf("init", attr, Len(calls)) # {}

\* C3: a failed init or finalize step is the last step of its load, and the
\* load then returns no configuration: __init__ has ended by the exception
\* and the object is never handed out (and so never resized).
C3_AllOrNothing ==
  /\ \A i \in DOMAIN calls :
        ~calls[i].ok => (i = Len(calls) /\ pc.step = "failed" /\ raised # "")
  /\ raised # "" => pc.step = "failed"
  /\ pc.step = "failed" => resizes = 0

\* A load that a finalize step ended, after init steps of a later entry.
C3_Witness ==
  /\ pc.step = "failed"
  /\ calls[Len(calls)].op = "final"
  /\ calls[Len(calls)].attr = "connection_types"
  /\ Cardinality(CallsOf("init", "connection_types", Len(calls))) >= 2

\* The resolved list of a connection type matches the raw references of the
\* document one by one.
Resolved(connection, key, raw) ==
  /\ Has(connection.dict, key)
  /\ Len(connection.dict[key]) = Len(raw)
  /\ \A i \in DOMAIN raw :
        /\ Has(cfg.cell_types, raw[i].type)
        /\ connection.dict[key][i] = cfg.cell_types[raw[i].type]
        /\ connection.dict[key][i].name = raw[i].type

\* C4: in a configuration that loaded, every entry of every connection
\* type's from_cell_types and to_cell_types is the cell type registered in
\* cell_types under the name of the raw reference.
C4_ReferentialIntegrity ==
  pc.step = "done" =>
    \A k \in DOMAIN cfg.connection_types :
       LET section == parsed_config.connection_types.items[k] IN
       /\ Resolved(cfg.connection_types[k], "from_cell_types", section.from_cell_types.v)
       /\ Resolved(cfg.connection_types[k], "to_cell_types", section.to_cell_types.v)

\* A loaded configuration whose cell types were declared in the opposite
\* order of the references of one of its connection types.
C4_Witness ==
  /\ pc.step = "done"
  /\ cfg.cell_type_map = <<"B", "A">>
  /\ \E k \in DOMAIN cfg.connection_types :
        /\ Len(cfg.connection_types[k].dict.from_cell_types) = 2
        /\ cfg.connection_types[k].dict.from_cell_types[1].name = "B"
  /\ \E k \in DOMAIN cfg.connection_types :
        cfg.connection_types[k].dict.to_cell_types # <<>>
        /\ cfg.connection_types[k].dict.to_cell_types[1].name = "B"

\* finalize_layers has returned.
LayersFinalized ==
  \E i \in DOMAIN calls : calls[i].op = "final" /\ calls[i].attr = "layers" /\ calls[i].ok

\* finalize_layers has just returned, and nothing has resized the volume.
JustFinalized ==
  /\ resizes = 0
  /\ calls # <<>>
  /\ calls[Len(calls)].op = "final" /\ calls[Len(calls)].attr = "layers"
  /\ calls[Len(calls)].ok

LayerSection(n) == parsed_config.layers.items[n]

\* C5: after finalize_layers, in every stack the layer of each slot starts
\* at or above the layer of the slot before it, exactly where that layer
\* ends (origin.y + thickness), whether the layers have an explicit thickness
\* or are volume-scaled.
C5_StackContiguous ==
  LayersFinalized =>
    \A sid \in DOMAIN cfg._layer_stacks :
       LET slots == cfg._layer_stacks[sid].layers IN
       \A a, b \in DOMAIN slots :
          (a < b /\ ~\E c \in DOMAIN slots : a < c /\ c < b) =>
             LET la == cfg.layers[slots[a]]
                 lb == cfg.layers[slots[b]]
             IN  /\ RLeq(la.origin[2], lb.origin[2])
                 /\ RAdd(la.origin[2], thickness(la)) = lb.origin[2]

\* A finalized stack of three slots, filled against the declaration order,
\* with a volume-scaled layer of positive thickness below an explicit one and
\* a base position of its own.
C5_Witness ==
  /\ LayersFinalized
  /\ \E sid \in DOMAIN cfg._layer_stacks :
        LET slots == cfg._layer_stacks[sid].layers IN
        /\ DOMAIN slots = {0, 1, 2}
        /\ slots[0] = "C" /\ slots[2] = "A"
        /\ Has(LayerSection(slots[0]), "volume_scale")
        /\ RPos(thickness(cfg.layers[slots[0]]))
        /\ Has(LayerSection(slots[1]), "thickness")
        /\ RPos(cfg.layers[slots[0]].origin[2])

\* The permutations of a sequence without repetitions.
Orders(seq) ==
  {o \in [DOMAIN seq -> Range(seq)] : Range(o) = Range(seq)}

VolumeScaled(items, n) == Has(items[n], "volume_scale")

\* In the declaration order o, every volume-scaled layer that a layer names
\* in scale_from_layers is declared before that layer.
BackwardOnly(o, items) ==
  \A i \in DOMAIN o :
     (VolumeScaled(items, o[i]) /\ Has(items[o[i]], "scale_from_layers")) =>
       \A r \in Range(items[o[i]].scale_from_layers) :
          (Has(items, r) /\ VolumeScaled(items, r)) => \E j \in 1..(i - 1) : o[j] = r

\* The layers as the document gives them when its layers are declared in
\* the order o.
Reordered(o) ==
  loaded_layers(parsed_config.network_architecture.simulation_volume_x,
                parsed_config.network_architecture.simulation_volume_z,
                Object(o, parsed_config.layers.items))

SameScaledDimensions(layers) ==
  \A n \in DOMAIN cfg.layers :
     VolumeScaled(parsed_config.layers.items, n) =>
       layers[n].dimensions = cfg.layers[n].dimensions

\* C6 as claimed: the dimensions of the volume-scaled layers are the same for
\* every declaration order of the layers, also when a layer names a
\* volume-scaled layer declared after it.
C6_AnyOrder ==
  JustFinalized =>
    \A o \in Orders(parsed_config.layers.keys) :
       LET r == Reordered(o)
       IN  (r.ok /\ AllNumbers(r.self.layers)) => SameScaledDimensions(r.self.layers)

\* C6, amended: the dimensions of the volume-scaled layers are the same for
\* every declaration order in which every volume-scaled layer named in a
\* scale_from_layers is declared before the layer that names it.
C6_BackwardOrders ==
  (JustFinalized /\ BackwardOnly(parsed_config.layers.keys, parsed_config.layers.items)) =>
    \A o \in Orders(parsed_config.layers.keys) :
       BackwardOnly(o, parsed_config.layers.items) =>
         LET r == Reordered(o) IN r.ok /\ SameScaledDimensions(r.self.layers)

\* A finalized chain (a layer scaled from a volume-scaled layer of positive
\* volume) that has another declaration order without forward references.
C6_Witness ==
  /\ JustFinalized
  /\ BackwardOnly(parsed_config.layers.keys, parsed_config.layers.items)
  /\ \E o \in Orders(parsed_config.layers.keys) :
        o # parsed_config.layers.keys /\ BackwardOnly(o, parsed_config.layers.items)
  /\ \E n \in DOMAIN cfg.layers :
        /\ VolumeScaled(parsed_config.layers.items, n)
        /\ RPos(volume(cfg.layers[n]))
        /\ \E r \in Range(LayerSection(n).scale_from_layers) :
              VolumeScaled(parsed_config.layers.items, r)

Ratios(config) ==
  IF Has(config, "volume_dimension_ratio") THEN config.volume_dimension_ratio
  ELSE <<R(1), R(1), R(1)>>

\* The volume of layer n is the volume of its reference layers over its
\* volume_scale, and its dimensions are in the proportions of its ratios.
VolumeRule(n) ==
  LET config == LayerSection(n)
      layer  == cfg.layers[n]
  IN  /\ volume(layer) =
           RDiv(SeqSum(reference_volumes(cfg.layers, config.scale_from_layers)),
                config.volume_scale)
      /\ \A i, j \in 1..3 :
            RMul(layer.dimensions[i], Ratios(config)[j])
              = RMul(layer.dimensions[j], Ratios(config)[i])

\* C7 as claimed: after finalize_layers every volume-scaled layer has the
\* volume of its reference layers over its volume_scale, in the proportions
\* of its volume_dimension_ratio.
C7_VolumeOfReferences ==
  JustFinalized =>
    \A n \in DOMAIN cfg.layers :
       VolumeScaled(parsed_config.layers.items, n) => VolumeRule(n)

\* Every volume-scaled layer that layer n names is declared before n.
ReferencesResolved(n) ==
  \A r \in Range(LayerSection(n).scale_from_layers) :
     VolumeScaled(parsed_config.layers.items, r) =>
       \E i, j \in DOMAIN cfg.layer_order :
          i < j /\ cfg.layer_order[i] = r /\ cfg.layer_order[j] = n

\* C7, amended: after finalize_layers every volume-scaled layer whose
\* volume-scaled reference layers are all declared before it has the volume
\* of its reference layers over its volume_scale, in the proportions of its
\* volume_dimension_ratio.
C7_VolumeOfResolvedReferences ==
  JustFinalized =>
    \A n \in DOMAIN cfg.layers :
       (VolumeScaled(parsed_config.layers.items, n) /\ ReferencesResolved(n)) =>
          VolumeRule(n)

\* The layer of volume_scale 2 from one layer and ratio [1, 1, 1] has half
\* the volume of that layer; and a layer with unequal ratios scaled from a
\* volume-scaled layer declared before it.
C7_Witness ==
  /\ JustFinalized
  /\ \/ /\ parsed_config.layers.keys = <<"A", "B">>
        /\ LayerSection("B").volume_scale = R(2)
        /\ LayerSection("B").scale_from_layers = <<"A">>
        /\ volume(cfg.layers["B"]) = RDiv(volume(cfg.layers["A"]), R(2))
        /\ RPos(volume(cfg.layers["B"]))
     \/ \E n \in DOMAIN cfg.layers :
           /\ VolumeScaled(parsed_config.layers.items, n)
           /\ ReferencesResolved(n)
           /\ Ratios(LayerSection(n)) = <<R(2), R(1), R(4)>>
           /\ RPos(volume(cfg.layers[n]))
           /\ \E r \in Range(LayerSection(n).scale_from_layers) :
                 VolumeScaled(parsed_config.layers.items, r)

\* The layer is centered on the X/Z footprint of the volume.
Centered(layer) ==
  /\ RAdd(layer.origin[1], RDiv(layer.dimensions[1], R(2))) = RDiv(cfg.X, R(2))
  /\ RAdd(layer.origin[3], RDiv(layer.dimensions[3], R(2))) = RDiv(cfg.Z, R(2))

\* C8: in the configuration the load returns and after every sequence of
\* resize calls, every layer declared with xz_center true is centered on the
\* X/Z footprint of the volume, volume-scaled layers included.
C8_CenteredLayers ==
  pc.step = "done" =>
    \A n \in DOMAIN cfg.layers :
       (Has(LayerSection(n), "xz_center") /\ LayerSection(n).xz_center = TRUE) =>
          Centered(cfg.layers[n])

\* C9: for every loaded (and possibly resized) configuration and all
\* arguments, resize(X, Z) twice leaves the origins and dimensions of all
\* layers and the stored X and Z as resize(X, Z) once leaves them.
C9_ResizeIdempotent ==
  pc.step = "done" =>
    \A a \in ResizeArgs :
       LET once  == resize(cfg, a[1], a[2])
           twice == resize(once, a[1], a[2])
       IN  /\ twice.layers = once.layers
           /\ twice.X = once.X
           /\ twice.Z = once.Z

\* A resized configuration with a centered layer, on which another resize to
\* new extents in both X and Z changes the layers and the stored extents.
C9_Witness ==
  /\ pc.step = "done"
  /\ resizes >= 1
  /\ \E n \in DOMAIN cfg.layers : cfg.layers[n].xz_center
  /\ \E a \in ResizeArgs :
        /\ a[1] # None /\ a[2] # None
        /\ resize(cfg, a[1], a[2]).layers # cfg.layers
        /\ resize(cfg, a[1], a[2]).X # cfg.X
        /\ resize(cfg, a[1], a[2]).Z # cfg.Z

\* The types a configured class name resolves to: one, or none.
ResolvedTypes(configured_class_name) ==
  IF isclass(configured_class_name) THEN {configured_class_name.cls}
  ELSE LET class_parts == configured_class_name.parts
           class_name  == class_parts[Len(class_parts)]
           module_name == SubSeq(class_parts, 1, Len(class_parts) - 1)
       IN  IF /\ module_name \in DOMAIN Modules
              /\ Has(Modules[module_name], class_name)
              /\ Modules[module_name][class_name].kind = "class"
           THEN {Modules[module_name][class_name].cls}
           ELSE {}

\* C10: every instance load_configurable_class returns is of a type that
\* derives from parent_class, whether the implementation is given as a
\* qualified name or as a type handle; a type that does not derive from
\* parent_class is rejected with DynamicClassException and no instance is
\* returned.
C10_InstancesDeriveFromParent ==
  call.made =>
    /\ call.result.ok => issubclass(call.result.val.class, call.parent_class)
    /\ \A t \in ResolvedTypes(call.configured_class_name) :
          ~issubclass(t, call.parent_class) => call.result = Err("DynamicClassException")

\* The last step was init_cell_type.
CellTypeInitialised ==
  /\ calls # <<>>
  /\ calls[Len(calls)].op = "init" /\ calls[Len(calls)].attr = "cell_types"
  /\ resizes = 0

\* The section of the cell type the last step was about, which has a
\* placement block.
LastCellSection == parsed_config.cell_types.items[calls[Len(calls)].name]

PlacementName(cell_type_name) == <<cell_type_name, "_placement">>

\* The placement class of the section loads as a placement strategy, and
\* the section names a layer.
PlacementLoads(placement) ==
  /\ Has(placement, "class") /\ Has(placement, "layer")
  /\ load_configurable_class("x", placement.class, "PlacementStrategy", EmptyDict).ok

\* C11: init_placement succeeds only for a placement section with exactly one
\* of density, planar_density, count, placement_count_ratio, density_ratio;
\* with none or several of them the step fails, with a configuration error
\* when the class loaded, and the placement strategy is not registered.
C11_StrictlyOneDensity ==
  (CellTypeInitialised /\ Has(LastCellSection, "placement")) =>
    LET placement == LastCellSection.placement
        n == Cardinality({k \in DensityKeys : Has(placement, k)})
        name == calls[Len(calls)].name
    IN  /\ calls[Len(calls)].ok => n = 1
        /\ n # 1 =>
             /\ ~calls[Len(calls)].ok
             /\ ~Has(cfg.placement_strategies, PlacementName(name))
             /\ PlacementLoads(placement) => raised = "ConfigurationException"

\* init_placement refused a section with count and one more density key,
\* whose class loaded, and registered nothing.
C11_Witness ==
  /\ CellTypeInitialised
  /\ Has(LastCellSection, "placement")
  /\ LET placement == LastCellSection.placement IN
     /\ Has(placement, "count")
     /\ Cardinality({k \in DensityKeys : Has(placement, k)}) = 2
     /\ PlacementLoads(placement)
  /\ raised = "ConfigurationException"
  /\ cfg.placement_strategies = EmptyDict

(***************************************************************************)
(* The NEST adapter: validation of the connection models of a simulation   *)
(* and the order in which connect_neurons creates their connections.       *)
(***************************************************************************)
MaxModels == 2

JBool(b) == [t |-> "bool", v |-> b]

JNone == [t |-> "none", v |-> FALSE]

\* The truth value of an attribute in a Python condition.
Truthy(x) == x.t = "bool" /\ x.v

\* NestConnection.defaults
defaults ==
  [plastic |-> JBool(FALSE), hetero |-> JNone, teaching |-> JNone,
   is_teaching |-> JBool(FALSE)]

\* x.attr if hasattr(x, attr) else default
attr_or(obj, attr, default) == IF Has(obj.dict, attr) THEN obj.dict[attr] ELSE default

\* SortableByAfter.add_after: name joins the components this one comes
\* after.
add_after(obj, name) == SetAttr(obj, "after", Append(attr_or(obj, "after", <<>>), name))

\* A variant of teaching_exists that takes every name for a connection
\* model.
teaching_exists_unchecked(connection_models, teaching) == TRUE

\* validate, line 592: the teaching target is a connection model.
teaching_exists(connection_models, teaching) == teaching \in DOMAIN connection_models

\* A variant of teach that makes the learning connection come after the
\* teaching one.
teach_reversed(connection_models, teaching, name) ==
  [n \in DOMAIN connection_models |->
     LET flagged == IF n = teaching
                    THEN SetAttr(connection_models[n], "is_teaching", JBool(TRUE))
                    ELSE connection_models[n]
     IN  IF n = name THEN add_after(flagged, teaching) ELSE flagged]

\* A variant of teach that flags the teaching connection and leaves the
\* order alone.
teach_without_after(connection_models, teaching, name) ==
  [n \in DOMAIN connection_models |->
     IF n = teaching THEN SetAttr(connection_models[n], "is_teaching", JBool(TRUE))
     ELSE connection_models[n]]

\* validate, lines 598-601: the teaching connection is flagged and comes
\* after the connection that names it.
teach(connection_models, teaching, name) ==
  [n \in DOMAIN connection_models |->
     IF n = teaching
     THEN add_after(SetAttr(connection_models[n], "is_teaching", JBool(TRUE)), name)
     ELSE connection_models[n]]

\* validate, line 585
heteroplastic(connection_model) ==
  Truthy(connection_model.dict.plastic) /\ Truthy(connection_model.dict.hetero)

\* NestAdapter.validate, the loop over the connection models in the order
\* of the dictionary, from the i-th on.  A raise leaves what the earlier
\* iterations assigned.
RECURSIVE validate_connection_models(_, _, _)
validate_connection_models(connection_models, names, i) ==
  IF i > Len(names) THEN [ok |-> TRUE, err |-> "", val |-> connection_models]
  ELSE
    LET name == names[i]
        m0 == connection_models[name]
        m1 == SetAttr(m0, "synapse_model", attr_or(m0, "synapse_model", "static_synapse"))
        m2 == SetAttr(m1, "plastic", attr_or(m1, "plastic", defaults.plastic))
        m3 == SetAttr(m2, "hetero", attr_or(m2, "hetero", defaults.hetero))
        models == [connection_models EXCEPT ![name] = m3]
        failed == [ok |-> FALSE, err |-> "ConfigurationException", val |-> models]
    IN  IF ~heteroplastic(m3) THEN validate_connection_models(models, names, i + 1)
        ELSE IF ~Has(m3.dict, "teaching") THEN failed
        ELSE IF ~teaching_exists(models, m3.dict.teaching) THEN failed
        ELSE validate_connection_models(teach(models, m3.dict.teaching, name), names, i + 1)

\* NestAdapter.validate
validate(self) ==
  LET cell_models == [n \in DOMAIN self.cell_models |->
                        SetAttr(self.cell_models[n], "neuron_model",
                                attr_or(self.cell_models[n], "neuron_model", "iaf_cond_alpha"))]
      r == validate_connection_models(self.connection_models, self.names, 1)
  IN  [ok |-> r.ok, err |-> r.err,
       self |-> [self EXCEPT !.cell_models = cell_models, !.connection_models = r.val]]

\* The orders of a sequence of names.
NameOrders(names) == {o \in [DOMAIN names -> Range(names)] : Range(o) = Range(names)}

Position(order, name) == CHOOSE i \in DOMAIN order : order[i] = name

\* SortableByAfter.is_after_satisfied: the component stands after every
\* component of its after list.
is_after_satisfied(connection_models, order, name) ==
  \A x \in Range(attr_or(connection_models[name], "after", <<>>)) :
     x \in Range(order) /\ Position(order, x) < Position(order, name)

\* SortableByAfter.resolve_order: the orders that satisfy every after list;
\* none when the after lists form a cycle.
resolve_order(connection_models, names) ==
  {o \in NameOrders(names) :
     \A n \in Range(names) : is_after_satisfied(connection_models, o, n)}

\* The adapter init_simulation builds for a simulation section with the
\* given connection models, declared in the order of names; postsynaptic is
\* the postsynaptic cell type of each model's connectivity set.
new_adapter(names, sections, postsynaptic) ==
  LET section == [cell_models |-> [A |-> EmptyDict], connection_models |-> sections]
  IN  [step |-> "loaded",
       cell_models |-> load_components("sim", section, "cell_models"),
       connection_models |-> load_components("sim", section, "connection_models"),
       names |-> names, postsynaptic |-> postsynaptic,
       order |-> <<>>, i |-> 0, created |-> <<>>, vt |-> {}, error |-> "", at |-> ""]

Validate ==
  /\ adapter.step = "loaded"
  /\ LET r == validate(adapter)
     IN  adapter' = [r.self EXCEPT !.step = IF r.ok THEN "validated" ELSE "failed",
                                   !.error = r.err,
                                   !.at = IF r.ok THEN "" ELSE "validate"]
  /\ UNCHANGED <<parsed_config, cfg, pc, raised, message, calls, resizes, call, heap, configs, adapters, lock_file, exited>>

\* connect_neurons, line 698
ResolveOrder ==
  /\ adapter.step = "validated"
  /\ LET orders == resolve_order(adapter.connection_models, adapter.names) IN
     IF orders = {}
     THEN adapter' = [adapter EXCEPT !.step = "failed", !.error = "ConfigurationException",
                                     !.at = "resolve_order"]
     ELSE \E order \in orders :
             adapter' = [adapter EXCEPT !.step = "connecting", !.order = order, !.i = 1]
  /\ UNCHANGED <<parsed_config, cfg, pc, raised, message, calls, resizes, call, heap, configs, adapters, lock_file, exited>>

\* connect_neurons, one iteration of the loop (lines 699-771); present says
\* whether the HDF5 file holds the dataset of the connection model.
ConnectModel(present) ==
  /\ adapter.step = "connecting"
  /\ LET name == adapter.order[adapter.i]
         connection_model == adapter.connection_models[name]
         postsynaptic_type == adapter.postsynaptic[name]
         next == IF adapter.i = Len(adapter.order) THEN "connected" ELSE "connecting"
         vt == IF heteroplastic(connection_model)
               THEN adapter.vt \cup {postsynaptic_type} ELSE adapter.vt
     IN  IF ~present
         THEN adapter' = [adapter EXCEPT !.step = next, !.i = @ + 1]
         ELSE IF /\ Truthy(attr_or(connection_model, "is_teaching", defaults.is_teaching))
                 /\ postsynaptic_type \notin vt
              THEN adapter' = [adapter EXCEPT !.step = "failed", !.error = "AttributeError",
                                              !.at = "connect_neurons",
                                              !.created = Append(@, name), !.vt = vt]
              ELSE adapter' = [adapter EXCEPT !.step = next, !.i = @ + 1,
                                              !.created = Append(@, name), !.vt = vt]
  /\ UNCHANGED <<parsed_config, cfg, pc, raised, message, calls, resizes, call, heap, configs, adapters, lock_file, exited>>

\* --- connection model sections
Learner(teaching) ==
  [plastic |-> JBool(TRUE), hetero |-> JBool(TRUE), teaching |-> teaching]

\* Plain models, heteroplastic models that name a model, a missing model or
\* nothing, and models that are not heteroplastic and name a missing model.
ModelSections(names) ==
  {EmptyDict, [plastic |-> JBool(TRUE), hetero |-> JBool(TRUE)],
   [plastic |-> JBool(FALSE), hetero |-> JBool(TRUE), teaching |-> "zz"],
   [plastic |-> JBool(TRUE), teaching |-> "zz"],
   [teaching |-> "zz"]}
  \cup {Learner(t) : t \in Range(names) \cup {"zz"}}

InitOrder ==
  /\ Start(FullDocument, EmptyDict)
  /\ heap = NoHeap /\ configs = <<>> /\ NoLocks
  /\ \E n \in 1..MaxModels :
        \E sections \in [Range(Ascending(n)) -> ModelSections(Ascending(n))],
           postsynaptic \in [Range(Ascending(n)) -> {"P", "Q"}] :
           adapter = new_adapter(Ascending(n), sections, postsynaptic)

NextOrder ==
  \/ Validate
  \/ ResolveOrder
  \/ \E present \in BOOLEAN : ConnectModel(present)

SpecOrder == InitOrder /\ [][NextOrder]_vars

\* The connection model `name` is plastic and heterosynaptic and names
\* `teaching` as its teaching connection.
Teaches(teaching, name) ==
  LET m == adapter.connection_models[name] IN
  /\ Truthy(attr_or(m, "plastic", defaults.plastic))
  /\ Truthy(attr_or(m, "hetero", defaults.hetero))
  /\ Has(m.dict, "teaching") /\ m.dict.teaching = teaching

\* C12 as claimed: in the order in which connect_neurons goes through the
\* connection models and creates their connections, every teaching
\* connection model precedes every connection model it teaches.
C12_TeachingFirst ==
  \A i, j \in DOMAIN adapter.order :
     Teaches(adapter.order[i], adapter.order[j]) => i < j

\* C12, amended: in the order in which connect_neurons goes through the
\* connection models and creates their connections, every teaching
\* connection model follows every connection model it teaches.
C12_TeachingLast ==
  /\ \A i, j \in DOMAIN adapter.order :
        Teaches(adapter.order[i], adapter.order[j]) => j < i
  /\ \A i, j \in DOMAIN adapter.created :
        Teaches(adapter.created[i], adapter.created[j]) => j < i

\* All connections were created, and one of them teaches a connection that
\* was declared after it.
C12_Witness ==
  /\ adapter.step = "connected"
  /\ \E i, j \in DOMAIN adapter.created :
        /\ Teaches(adapter.created[i], adapter.created[j])
        /\ Position(adapter.names, adapter.created[i])
             < Position(adapter.names, adapter.created[j])

\* The teaching relation among the connection models has a cycle: a set of
\* models each of which is taught by a model of the set.
CyclicTeaching ==
  \E S \in (SUBSET Range(adapter.names)) \ {{}} :
     \A n \in S : \E t \in S : Teaches(t, n)

DanglingTeaching(heteroplastic_only) ==
  \E n \in Range(adapter.names) :
     LET m == adapter.connection_models[n] IN
     /\ Has(m.dict, "teaching")
     /\ m.dict.teaching \notin Range(adapter.names)
     /\ heteroplastic_only => Teaches(m.dict.teaching, n)

ValidationFailed ==
  /\ adapter.step = "failed" /\ adapter.at = "validate"
  /\ adapter.error = "ConfigurationException"

\* C20 as claimed: validation fails with a configuration error whenever a
\* connection model names a teaching connection that is no connection model
\* of the simulation, whatever its plastic and hetero attributes.
C20_AnyDanglingTeachingFails ==
  (adapter.step \notin {"none", "loaded"} /\ DanglingTeaching(FALSE)) => ValidationFailed

\* C20, amended: validation fails with a configuration error whenever a
\* plastic, heterosynaptic connection model names a teaching connection that
\* is no connection model of the simulation.
C20_HeteroplasticDanglingTeachingFails ==
  (adapter.step \notin {"none", "loaded"} /\ DanglingTeaching(TRUE)) => ValidationFailed

\* Validation refused a heteroplastic model with a missing teaching
\* connection, declared after a model that passed.
C20_Witness ==
  /\ ValidationFailed
  /\ Len(adapter.names) >= 2
  /\ Teaches("zz", adapter.names[2])
  /\ Has(adapter.connection_models[adapter.names[1]].dict, "synapse_model")

\* Every layer of the document has been initialised by init_layer.
LayersInitialised ==
  /\ Has(parsed_config, "layers")
  /\ \A n \in DOMAIN parsed_config.layers.items :
        \E i \in DOMAIN calls :
           /\ calls[i].op = "init" /\ calls[i].attr = "layers"
           /\ calls[i].name = n /\ calls[i].ok

\* C15: after all layers are initialised, every layer that declared a stack
\* block is in the slot map of the stack of its stack_id at its declared
\* position_in_stack; no two layers of the same stack and slot are both
\* accepted with one of them missing from the stack.
C15_StackSlotsKept ==
  LayersInitialised =>
    \A n \in DOMAIN parsed_config.layers.items :
       Has(LayerSection(n), "stack") =>
          LET stack_config == LayerSection(n).stack IN
          /\ Has(cfg._layer_stacks, stack_config.stack_id)
          /\ Has(cfg._layer_stacks[stack_config.stack_id].layers,
                 stack_config.position_in_stack)
          /\ cfg._layer_stacks[stack_config.stack_id].layers[
                 stack_config.position_in_stack] = n

\* The load ended in finalize_connection on a reference to a cell type that
\* is not in cell_types.
UnknownCellTypeRaised ==
  /\ pc.step = "failed"
  /\ calls # <<>>
  /\ calls[Len(calls)].op = "final" /\ calls[Len(calls)].attr = "connection_types"
  /\ message.text = "Unknown cell type"

\* C16: a reference of a connection type to a cell type that is not in
\* cell_types ends the load with an error that names the unknown cell type
\* and whose location is the node path of that connection type,
\* connection_types.<name>.
C16_UnknownCellTypeLocated ==
  UnknownCellTypeRaised =>
    /\ ~Has(cfg.cell_types, message.type)
    /\ Len(message.path) = 3
    /\ message.path[1] = "connection_types"
    /\ message.path[2] = calls[Len(calls)].name
    /\ message.path[3] \in {"from_cell_types", "to_cell_types"}

\* The load has ended on an exception that no callback raised: the one of
\* load_attr's key check.
LoadAttrRaised ==
  /\ pc.step = "failed"
  /\ \A i \in DOMAIN calls : calls[i].ok

\* The collections before the k-th that load_attr is called for.
AttrsBefore(k) == {AttrOrder[j] : j \in 1..(k - 1)}

NotLoadable(configured_class_name) ==
  /\ ~isclass(configured_class_name)
  /\ LET class_parts == configured_class_name.parts
         module_name == SubSeq(class_parts, 1, Len(class_parts) - 1)
     IN  \/ module_name = <<>>
         \/ module_name \notin DOMAIN Modules
         \/ ~Has(Modules[module_name], class_parts[Len(class_parts)])

\* C18: load_configurable_class given a qualified name that resolves to no
\* loadable type fails with ConfigurableClassNotFoundException, and
\* init_placement, run by init_cell_type, turns that into its own
\* descriptive error (an Exception).
C18_TypeNotFound ==
  (CellTypeInitialised /\ Has(LastCellSection, "placement")
     /\ Has(LastCellSection.placement, "class")
     /\ NotLoadable(LastCellSection.placement.class)) =>
    /\ LET loaded == load_configurable_class(PlacementName(calls[Len(calls)].name),
                                             LastCellSection.placement.class,
                                             "PlacementStrategy", EmptyDict)
       IN  ~loaded.ok /\ loaded.err = "ConfigurableClassNotFoundException"
    /\ ~calls[Len(calls)].ok
    /\ raised = "Exception"

\* Apart from its soma radius, the cell type section loads: its placement
\* class loads, it names a layer and exactly one density key, a number, with
\* the cell type it is relative to if it is a ratio, and it has a morphology
\* that loads unless it is an entity.
LoadsApartFromSoma(section) ==
  /\ Has(section, "placement")
  /\ LET placement == section.placement
         found == present_attrs(placement, DensityAttrs)
     IN  /\ PlacementLoads(placement)
         /\ Cardinality(found) = 1
         /\ \A a \in found :
               /\ assert_float_ok(placement[a])
               /\ a \in {"placement_count_ratio", "density_ratio"} =>
                     Has(placement, "placement_relative_to")
  /\ (Has(section, "entity") /\ section.entity)
       \/ (/\ Has(section, "morphology") /\ Has(section.morphology, "class")
           /\ load_configurable_class("x", section.morphology.class,
                                      "Morphology", EmptyDict).ok)

\* C19: a numeric soma_radius is required in the placement section exactly
\* when the cell type is not an entity type: a cell type with entity true
\* loads without soma_radius, a cell type without the entity flag fails when
\* soma_radius is missing, and a placement that got a soma_radius has a
\* radius equal to it.
C19_SomaRadiusUnlessEntity ==
  (CellTypeInitialised /\ LoadsApartFromSoma(LastCellSection)) =>
    LET section == LastCellSection
        name == calls[Len(calls)].name
        ok == calls[Len(calls)].ok
    IN  /\ (Has(section, "entity") /\ section.entity
              /\ ~Has(section.placement, "soma_radius")) => ok
        /\ (~Has(section, "entity") /\ ~Has(section.placement, "soma_radius")) =>
              ~ok /\ raised = "ConfigurationException"
        /\ (ok /\ Has(cfg.placement_strategies[PlacementName(name)].dict, "soma_radius")) =>
              LET placement == cfg.placement_strategies[PlacementName(name)].dict
              IN  Has(placement, "radius") /\ placement.radius = placement.soma_radius

(***************************************************************************)
(* Configuration objects constructed one after the other in one process:   *)
(* the simulators dictionary of each is a reference into the heap.         *)
(***************************************************************************)
MaxConfigs == 2

\* ScaffoldConfig.__init__, lines 100-101: the object keeps the dictionary
\* it was given (the one default object of the parameter when none was
\* given) and registers the NEST adapter in it.
ScaffoldConfig_init(dicts, simulators) ==
  LET registry == Put(dicts[simulators], "nest", "NestAdapter") IN
  [heap |-> [dicts EXCEPT ![simulators] = registry],
   self |-> [simulators |-> simulators,
             explicit   |-> simulators # "default",
             before     |-> dicts[simulators],
             after      |-> registry,
             registered |-> {}]]

\* A caller constructs a configuration, with its own dictionary or without
\* a simulators argument.
Construct(simulators) ==
  /\ Len(configs) < MaxConfigs
  /\ LET r == ScaffoldConfig_init(heap, simulators) IN
     /\ heap' = r.heap
     /\ configs' = Append(configs, r.self)
  /\ UNCHANGED <<parsed_config, cfg, pc, raised, message, calls, resizes, call, adapter, adapters, lock_file, exited>>

\* A caller registers a simulator in the registry of a configuration:
\* config.simulators[name] = UserAdapter.
Register(i, name) ==
  /\ name \notin configs[i].registered
  /\ heap' = [heap EXCEPT ![configs[i].simulators] = Put(@, name, "UserAdapter")]
  /\ configs' = [configs EXCEPT ![i].registered = @ \cup {name}]
  /\ UNCHANGED <<parsed_config, cfg, pc, raised, message, calls, resizes, call, adapter, adapters, lock_file, exited>>

InitShared ==
  /\ Start(FullDocument, EmptyDict)
  /\ adapter = NoAdapter
  /\ configs = <<>>
  /\ NoLocks
  /\ \E caller \in {EmptyDict, [mine |-> "UserAdapter"]} :
        heap = [default |-> EmptyDict, caller |-> caller]

NextShared ==
  \/ \E simulators \in {"default", "caller"} : Construct(simulators)
  \/ \E i \in DOMAIN configs, name \in {"user", "other"} : Register(i, name)

SpecShared == InitShared /\ [][NextShared]_vars

\* C14: configuration objects share no mutable state: a simulator registered
\* in the registry of one configuration is not in the registry of another
\* configuration that was constructed without a simulators argument (unless
\* registered there too), and constructing a configuration leaves the
\* caller's dictionary as it was.
C14_NoSharedState ==
  /\ \A i, j \in DOMAIN configs :
        (i # j /\ ~configs[j].explicit) =>
           \A name \in configs[i].registered \ configs[j].registered :
              ~Has(heap[configs[j].simulators], name)
  /\ \A i \in DOMAIN configs :
        configs[i].explicit => configs[i].after = configs[i].before

(***************************************************************************)
(* Layers without a size.                                                  *)
(***************************************************************************)
\* The last step was init_layer.
LayerInitialised ==
  /\ calls # <<>>
  /\ calls[Len(calls)].op = "init" /\ calls[Len(calls)].attr = "layers"

\* The layer m was initialised and its section gives the stack sid.
DeclaresStack(m, sid) ==
  /\ \E i \in DOMAIN calls :
        calls[i].op = "init" /\ calls[i].attr = "layers" /\ calls[i].name = m /\ calls[i].ok
  /\ Has(LayerSection(m), "stack")
  /\ LayerSection(m).stack.stack_id = sid

\* C21: init_layer on a section with neither thickness nor volume_scale
\* fails with a configuration error before anything is registered: the layer
\* is in neither layers nor layer_map, no stack slot holds it, and every
\* stack and every stack base position on record comes from another layer.
C21_SizelessLayerRefused ==
  LET n == calls[Len(calls)].name IN
  (LayerInitialised /\ ~Has(LayerSection(n), "thickness")
     /\ ~Has(LayerSection(n), "volume_scale")) =>
    /\ ~calls[Len(calls)].ok
    /\ raised = "ConfigurationException"
    /\ ~Has(cfg.layers, n)
    /\ \A i \in DOMAIN cfg.layer_map : cfg.layer_map[i] # n
    /\ \A sid \in DOMAIN cfg._layer_stacks :
          LET stack == cfg._layer_stacks[sid] IN
          /\ \A slot \in DOMAIN stack.layers : stack.layers[slot] # n
          /\ \E m \in DOMAIN parsed_config.layers.items : m # n /\ DeclaresStack(m, sid)
          /\ Has(stack, "position") =>
                \E m \in DOMAIN parsed_config.layers.items :
                   /\ m # n /\ DeclaresStack(m, sid)
                   /\ Has(LayerSection(m).stack, "position")

\* A layer with a stack block, a slot and a base position but no size was
\* refused after another layer of the same stack was registered.
C21_Witness ==
  /\ LayerInitialised
  /\ LET n == calls[Len(calls)].name IN
     /\ ~Has(LayerSection(n), "thickness") /\ ~Has(LayerSection(n), "volume_scale")
     /\ Has(LayerSection(n), "stack") /\ Has(LayerSection(n).stack, "position")
     /\ Has(cfg._layer_stacks, LayerSection(n).stack.stack_id)
  /\ raised = "ConfigurationException"
  /\ Len(cfg.layer_map) = 1

(***************************************************************************)
(* The registries of a configuration object, filled by direct calls of     *)
(* add_layer and add_cell_type.                                            *)
(***************************************************************************)
MaxAdds == 3

\* ScaffoldConfig.get_layer(id=id) for id > -1 (lines 233-236): the id is
\* checked against layer_map, the layer taken from the values of the layers
\* dictionary in insertion order.
get_layer_by_id(self, id) ==
  IF Len(self.layer_map) <= id THEN Err("Exception")
  ELSE IF id >= Len(self.layer_order) THEN Err("IndexError")
  ELSE Ok(self.layers[self.layer_order[id + 1]])

\* list.index: the first position of name, from 0.
index(list, name) ==
  CHOOSE i \in 0..(Len(list) - 1) :
     list[i + 1] = name /\ \A j \in 0..(i - 1) : list[j + 1] # name

\* ScaffoldConfig.get_layer_id (line 259), for a name in layer_map.
get_layer_id(self, name) == index(self.layer_map, name)

\* ScaffoldConfig.get_cell_type (line 279), for an id within cell_type_map.
get_cell_type(self, id) == self.cell_types[self.cell_type_map[id + 1]]

\* A caller registers a layer of the given name and thickness.
AddLayer(name, thick) ==
  /\ Len(cfg.layer_map) < MaxAdds
  /\ cfg' = add_layer(cfg, Layer(name, <<R(0), R(0), R(0)>>, <<cfg.X, thick, cfg.Z>>))
  /\ UNCHANGED <<parsed_config, pc, raised, message, calls, resizes, call,
                 adapter, heap, configs, adapters, lock_file, exited>>

\* A caller registers a cell type of the given name.
AddCellType(name, entity) ==
  /\ Len(cfg.cell_type_map) < MaxAdds
  /\ cfg' = add_cell_type(cfg, [name |-> name, entity |-> entity])
  /\ UNCHANGED <<parsed_config, pc, raised, message, calls, resizes, call,
                 adapter, heap, configs, adapters, lock_file, exited>>

InitRegistry ==
  /\ Start(FullDocument, EmptyDict)
  /\ adapter = NoAdapter /\ heap = NoHeap /\ configs = <<>> /\ NoLocks

NextRegistry ==
  \/ \E name \in {"A", "B"}, thick \in {R(4)} : AddLayer(name, thick)
  \/ \E name \in {"A", "B"}, entity \in {TRUE} : AddCellType(name, entity)

SpecRegistry == InitRegistry /\ [][NextRegistry]_vars

\* The keys of a dictionary in insertion order, given the names in the order
\* of their registration: the first occurrence of each.
RECURSIVE FirstOccurrences(_)
FirstOccurrences(map) ==
  IF map = <<>> THEN <<>>
  ELSE LET front == FirstOccurrences(SubSeq(map, 1, Len(map) - 1))
           name  == map[Len(map)]
       IN  IF \E i \in DOMAIN front : front[i] = name THEN front
           ELSE Append(front, name)

\* C22: after any sequence of add_layer calls, layer_map lists exactly the
\* keys of layers, without duplicates and in the same order: get_layer(id=id)
\* returns the layer named layer_map[id] or raises the 'not found' exception,
\* and get_layer(id=get_layer_id(n)) is the layer registered under n; the
\* same for add_cell_type, cell_type_map and get_cell_type.
C22_MapsListKeys ==
  /\ cfg.layer_map = cfg.layer_order
  /\ \A id \in 0..MaxAdds :
        LET r == get_layer_by_id(cfg, id) IN
        IF r.ok THEN r.val.name = cfg.layer_map[id + 1] ELSE r.err = "Exception"
  /\ \A n \in DOMAIN cfg.layers :
        LET r == get_layer_by_id(cfg, get_layer_id(cfg, n)) IN
        r.ok /\ r.val = cfg.layers[n]
  /\ cfg.cell_type_map = FirstOccurrences(cfg.cell_type_map)
  /\ {cfg.cell_type_map[i] : i \in DOMAIN cfg.cell_type_map} = DOMAIN cfg.cell_types
  /\ \A id \in 0..(Len(cfg.cell_type_map) - 1) :
        get_cell_type(cfg, id).name = cfg.cell_type_map[id + 1]

(***************************************************************************)
(* Resizes of a loaded configuration to extents that are no powers of two. *)
(***************************************************************************)
\* A layer of the whole width and a centered layer of half the width.
DriftLayers ==
  Object(<<"A", "B">>,
         [A |-> Thick(4),
          B |-> [thickness |-> R(4), xz_center |-> TRUE,
                 xz_scale |-> [kind |-> "scalar", v |-> Rat(1, 2)]]])

DriftDocuments ==
  {Document(X, BaseZ, DriftLayers, PlainCellTypes, PlainConnections,
            Object(<<"A">>, [A |-> SimulationSection("nest")])) :
     X \in {R(3), R(4)}}

DriftArgs ==
  {<<R(13), None>>, <<R(11), None>>, <<R(7), None>>, <<None, R(13)>>,
   <<R(7), R(7)>>, <<R(3), R(5)>>}

InitResize ==
  \E document \in DriftDocuments :
     /\ Start(document, EmptyDict)
     /\ adapter = NoAdapter /\ heap = NoHeap /\ configs = <<>> /\ NoLocks

NextResize ==
  \/ Load
  \/ \E a \in DriftArgs : Resize(a[1], a[2])

SpecResize == InitResize /\ [][NextResize]_vars

\* The layers as the load returned them: the document loaded again.
LayersAtLoad ==
  loaded_layers(parsed_config.network_architecture.simulation_volume_x,
                parsed_config.network_architecture.simulation_volume_z,
                parsed_config.layers).self.layers

\* C24: after any sequence of resize calls with positive arguments, the X
\* extent of every scaling layer is its X extent at load multiplied by
\* (current X / X at load), and likewise for Z, whatever the resizes in
\* between were.
C24_ResizeByFinalVolume ==
  (pc.step = "done" /\ resizes > 0) =>
    \A n \in DOMAIN cfg.layers :
       cfg.layers[n].scaling =>
         LET X0 == parsed_config.network_architecture.simulation_volume_x
             Z0 == parsed_config.network_architecture.simulation_volume_z
             at_load == LayersAtLoad[n].dimensions
         IN  /\ cfg.layers[n].dimensions[1] = FMul(at_load[1], FDiv(cfg.X, X0))
             /\ cfg.layers[n].dimensions[3] = FMul(at_load[3], FDiv(cfg.Z, Z0))

(***************************************************************************)
(* The parallel lists of finalize_connection.                              *)
(***************************************************************************)
\* finalize_connection has returned for the connection type n.
ConnectionFinalized(n) ==
  \E i \in DOMAIN calls :
     /\ calls[i].op = "final" /\ calls[i].attr = "connection_types"
     /\ calls[i].name = n /\ calls[i].ok

\* The resolved cell types and the compartment tags correspond to the raw
\* references, index by index, with the given default tags.
Parallel(raw, types, compartments, default) ==
  /\ Len(types) = Len(raw)
  /\ Len(compartments) = Len(raw)
  /\ \A i \in DOMAIN raw :
        /\ types[i] = cfg.cell_types[raw[i].type]
        /\ compartments[i] = IF Has(raw[i], "compartments")
                             THEN raw[i].compartments ELSE default

\* C23: after finalize_connection, in both directions the resolved cell
\* types and the compartment tags are as long as the raw reference array and
\* correspond to it index by index; the tags of a reference are its own
\* compartments, or ["axon"] for a source and ["dendrites"] for a target.
C23_ParallelLists ==
  \A n \in DOMAIN cfg.connection_types :
     ConnectionFinalized(n) =>
        LET section == parsed_config.connection_types.items[n]
            connection == cfg.connection_types[n].dict
        IN  /\ Parallel(section.from_cell_types.v, connection.from_cell_types,
                        connection.from_cell_compartments, <<"axon">>)
            /\ Parallel(section.to_cell_types.v, connection.to_cell_types,
                        connection.to_cell_compartments, <<"dendrites">>)

\* A finalized connection type with two sources on the default tags and a
\* target with compartments of its own.
C23_Witness ==
  \E n \in DOMAIN cfg.connection_types :
     /\ ConnectionFinalized(n)
     /\ LET connection == cfg.connection_types[n].dict IN
        /\ connection.from_cell_compartments = <<<<"axon">>, <<"axon">>>>
        /\ Len(connection.from_cell_types) = 2
        /\ connection.from_cell_types[1].name = "B"
        /\ connection.to_cell_compartments = <<<<"soma">>>>

(***************************************************************************)
(* Volume-scaled layers without reference layers.                          *)
(***************************************************************************)
\* finalize_layers was called, and the k-th layer is the first it cannot
\* size: it has volume_scale and no scale_from_layers, and the layers before
\* it are sized by thickness or from layers that exist.
FirstWithoutReferences(k) ==
  /\ \E i \in DOMAIN calls : calls[i].op = "final" /\ calls[i].attr = "layers"
  /\ k \in DOMAIN cfg.layer_order
  /\ Has(LayerSection(cfg.layer_order[k]), "volume_scale")
  /\ ~Has(LayerSection(cfg.layer_order[k]), "scale_from_layers")
  /\ \A j \in 1..(k - 1) :
        LET config == LayerSection(cfg.layer_order[j]) IN
        Has(config, "volume_scale") =>
           /\ Has(config, "scale_from_layers")
           /\ \A r \in Range(config.scale_from_layers) : Has(cfg.layers, r)

\* C25: finalize_layers on a layer whose section has volume_scale but no
\* scale_from_layers fails with ConfigurationException.
C25_MissingReferencesReported ==
  \A k \in 1..MaxLayers :
     FirstWithoutReferences(k) =>
        /\ pc.step = "failed"
        /\ ~calls[Len(calls)].ok
        /\ raised = "ConfigurationException"

(***************************************************************************)
(* The density of a placement.                                             *)
(***************************************************************************)
\* C26: for each of the five density modes, after init_placement returns the
\* placement's attribute named after the selected mode holds the value
\* assert_float produced, not the raw value of the section: the copy of the
\* remaining keys does not overwrite it.
C26_DensityIsFloat ==
  (CellTypeInitialised /\ calls[Len(calls)].ok /\ Has(LastCellSection, "placement")) =>
    LET section == LastCellSection.placement
        placement == cfg.placement_strategies[PlacementName(calls[Len(calls)].name)].dict
    IN  \A mode \in DensityKeys :
           Has(section, mode) =>
              /\ Has(placement, mode)
              /\ placement[mode] = assert_float(section[mode])

(***************************************************************************)
(* The kernel lock of the NEST adapter: a file per process that holds      *)
(* {"multi": false} or {"multi": true, "suffixes": [...]}.                 *)
(***************************************************************************)
MaxAdapters == 3

\* What the last call on an adapter was and how it ended; `conflict` tells
\* whether the call met a lock that excluded it.
NoResult == [op |-> "", err |-> "", conflict |-> FALSE]

\* NestAdapter.__init__ (lines 362-368), followed by enable_multi (lines
\* 459-461) for an adapter in multi-instance mode.
NestAdapter_init(multi, suffix) ==
  [multi |-> multi, suffix |-> suffix, has_lock |-> FALSE, is_prepared |-> FALSE,
   alive |-> TRUE, at |-> "idle", lock_data |-> NoFile, last |-> NoResult]

\* read_lock: the content of the lock file, None (NoFile) without a file.
read_lock(file) == file

\* A variant of single_lock that opens the lock file in mode "w".
single_lock_overwriting(file) ==
  [ok |-> TRUE, err |-> "", file |-> [exists |-> TRUE, multi |-> FALSE, suffixes |-> <<>>]]

\* single_lock: the file is opened in mode "x", which fails if it exists.
single_lock(file) ==
  IF file.exists THEN [ok |-> FALSE, err |-> "KernelLockedException", file |-> file]
  ELSE [ok |-> TRUE, err |-> "",
        file |-> [exists |-> TRUE, multi |-> FALSE, suffixes |-> <<>>]]

\* multi_lock after its read_lock (lines 435-446): the checks on the data
\* it read and the write of the data with the suffix appended.
multi_lock_write(lock_data, suffix, file) ==
  LET data == IF ~lock_data.exists
              THEN [exists |-> TRUE, multi |-> TRUE, suffixes |-> <<>>]
              ELSE lock_data
  IN  IF ~data.multi
      THEN [ok |-> FALSE, err |-> "KernelLockedException", file |-> file]
      ELSE IF suffix \in Range(data.suffixes)
      THEN [ok |-> FALSE, err |-> "SuffixTakenException", file |-> file]
      ELSE [ok |-> TRUE, err |-> "",
            file |-> [data EXCEPT !.suffixes = Append(@, suffix)]]

\* multi_lock
multi_lock(file, suffix) == multi_lock_write(read_lock(file), suffix, file)

\* NestAdapter.lock: has_lock is set when the lock was taken.
lock(self, file) ==
  LET r == IF ~self.multi THEN single_lock(file) ELSE multi_lock(file, self.suffix)
  IN  [ok |-> r.ok, err |-> r.err, file |-> r.file,
       self |-> IF r.ok THEN [self EXCEPT !.has_lock = TRUE] ELSE self]

\* A sequence without its first occurrence of x (list.remove).
RECURSIVE Remove(_, _)
Remove(list, x) ==
  IF list = <<>> THEN <<>>
  ELSE IF list[1] = x THEN Tail(list)
  ELSE <<list[1]>> \o Remove(Tail(list), x)

\* delete_lock_file: os.remove fails on a file that is not there.
delete_lock_file(file) ==
  IF file.exists THEN [ok |-> TRUE, err |-> "", file |-> NoFile]
  ELSE [ok |-> FALSE, err |-> "FileNotFoundError", file |-> file]

\* release_lock after its read_lock (lines 470-477), on the data it read.
release_lock_write(lock_data, suffix, file) ==
  IF ~lock_data.exists THEN [ok |-> FALSE, err |-> "TypeError", file |-> file]
  ELSE IF lock_data.multi
  THEN IF Len(lock_data.suffixes) = 1 THEN delete_lock_file(file)
       ELSE IF suffix \notin Range(lock_data.suffixes)
       THEN [ok |-> FALSE, err |-> "ValueError", file |-> file]
       ELSE [ok |-> TRUE, err |-> "",
             file |-> [lock_data EXCEPT !.suffixes = Remove(@, suffix)]]
  ELSE delete_lock_file(file)

\* NestAdapter.release_lock
release_lock(self, file) ==
  IF ~self.has_lock
  THEN [ok |-> FALSE, err |-> "AdapterException", file |-> file, self |-> self]
  ELSE LET r == release_lock_write(read_lock(file), self.suffix, file)
       IN  [ok |-> r.ok, err |-> r.err, file |-> r.file,
            self |-> [self EXCEPT !.has_lock = FALSE]]

\* Another adapter holds a lock that excludes a lock of the adapter a: a
\* is single-instance, or the other one is.
Excluded(a) ==
  \E b \in DOMAIN adapters :
     b # a /\ adapters[b].has_lock /\ (~adapters[a].multi \/ ~adapters[b].multi)

\* The variables of the loader and of the other parts stay as they are.
OnlyLocks ==
  UNCHANGED <<parsed_config, cfg, pc, raised, message, calls, resizes, call, adapter,
              heap, configs>>

\* adapter.lock()
Lock(a) ==
  /\ LET r == lock(adapters[a], lock_file) IN
     /\ adapters' = [adapters EXCEPT
                       ![a] = [r.self EXCEPT
                                 !.last = [op |-> "lock", err |-> r.err,
                                           conflict |-> Excluded(a)]]]
     /\ lock_file' = r.file
  /\ UNCHANGED exited
  /\ OnlyLocks

\* adapter.release_lock()
ReleaseLock(a) ==
  /\ LET r == release_lock(adapters[a], lock_file) IN
     /\ adapters' = [adapters EXCEPT
                       ![a] = [r.self EXCEPT
                                 !.last = [op |-> "release_lock", err |-> r.err,
                                           conflict |-> FALSE]]]
     /\ lock_file' = r.file
  /\ UNCHANGED exited
  /\ OnlyLocks

\* The adapters of a process: single-instance ones and multi-instance ones
\* with a suffix each.
AdapterKinds ==
  {NestAdapter_init(FALSE, ""), NestAdapter_init(TRUE, "a"), NestAdapter_init(TRUE, "b")}

InitLock ==
  /\ Start(FullDocument, EmptyDict)
  /\ adapter = NoAdapter /\ heap = NoHeap /\ configs = <<>>
  /\ adapters \in [1..MaxAdapters -> AdapterKinds]
  /\ lock_file = NoFile
  /\ exited = FALSE

NextLock ==
  \/ \E a \in DOMAIN adapters : Lock(a)
  \/ \E a \in DOMAIN adapters : ReleaseLock(a)

SpecLock == InitLock /\ [][NextLock]_vars

\* C27: a single-instance adapter that holds the kernel lock is the only
\* adapter holding it, and a lock() that meets a lock excluding it raises
\* KernelLockedException and leaves has_lock of the caller false.
C27_SingleLockExclusive ==
  /\ \A a, b \in DOMAIN adapters :
        (a # b /\ ~adapters[a].multi /\ adapters[a].has_lock) => ~adapters[b].has_lock
  /\ \A a \in DOMAIN adapters :
        (adapters[a].last.op = "lock" /\ adapters[a].last.conflict) =>
           /\ adapters[a].last.err = "KernelLockedException"
           /\ ~adapters[a].has_lock

\* A single-instance adapter holds the lock, and the lock() of a
\* multi-instance adapter and of another single-instance adapter were refused.
C27_Witness ==
  \E a, b, c \in DOMAIN adapters :
     /\ ~adapters[a].multi /\ adapters[a].has_lock
     /\ adapters[b].multi /\ ~adapters[b].has_lock
     /\ adapters[b].last = [op |-> "lock", err |-> "KernelLockedException",
                            conflict |-> TRUE]
     /\ c # a /\ ~adapters[c].multi
     /\ adapters[c].last = [op |-> "lock", err |-> "KernelLockedException",
                            conflict |-> TRUE]

(***************************************************************************)
(* Multi-instance adapters whose calls interleave: reading the lock file   *)
(* and writing it are steps of their own.                                  *)
(***************************************************************************)
MaxRacers == 2

\* multi_lock, line 434: the adapter reads the lock file.
MultiLockRead(a) ==
  /\ adapters[a].at = "idle"
  /\ adapters' = [adapters EXCEPT ![a].at = "multi_lock",
                                  ![a].lock_data = read_lock(lock_file)]
  /\ UNCHANGED <<lock_file, exited>>
  /\ OnlyLocks

\* multi_lock, lines 435-446, and line 422 of lock: the checks on the data
\* read, the write, and has_lock.
MultiLockWrite(a) ==
  /\ adapters[a].at = "multi_lock"
  /\ LET r == multi_lock_write(adapters[a].lock_data, adapters[a].suffix, lock_file) IN
     /\ adapters' = [adapters EXCEPT
                       ![a].at = "idle",
                       ![a].has_lock = IF r.ok THEN TRUE ELSE @,
                       ![a].last = [op |-> "lock", err |-> r.err, conflict |-> FALSE]]
     /\ lock_file' = r.file
  /\ UNCHANGED exited
  /\ OnlyLocks

\* release_lock, lines 464-469: has_lock is cleared and the file read.
ReleaseRead(a) ==
  /\ adapters[a].at = "idle"
  /\ adapters[a].has_lock
  /\ adapters' = [adapters EXCEPT ![a].at = "release_lock",
                                  ![a].has_lock = FALSE,
                                  ![a].lock_data = read_lock(lock_file)]
  /\ UNCHANGED <<lock_file, exited>>
  /\ OnlyLocks

\* release_lock, lines 470-477: the file is deleted or written.
ReleaseWrite(a) ==
  /\ adapters[a].at = "release_lock"
  /\ LET r == release_lock_write(adapters[a].lock_data, adapters[a].suffix, lock_file) IN
     /\ adapters' = [adapters EXCEPT
                       ![a].at = "idle",
                       ![a].last = [op |-> "release_lock", err |-> r.err,
                                    conflict |-> FALSE]]
     /\ lock_file' = r.file
  /\ UNCHANGED exited
  /\ OnlyLocks

InitRace ==
  /\ Start(FullDocument, EmptyDict)
  /\ adapter = NoAdapter /\ heap = NoHeap /\ configs = <<>>
  /\ adapters \in [1..MaxRacers -> {k \in AdapterKinds : k.multi}]
  /\ lock_file = NoFile
  /\ exited = FALSE

NextRace ==
  \/ \E a \in DOMAIN adapters : MultiLockRead(a)
  \/ \E a \in DOMAIN adapters : MultiLockWrite(a)
  \/ \E a \in DOMAIN adapters : ReleaseRead(a)
  \/ \E a \in DOMAIN adapters : ReleaseWrite(a)

SpecRace == InitRace /\ [][NextRace]_vars

\* C28: under every interleaving of multi_lock and release_lock calls of
\* multi-instance adapters, every adapter with has_lock true has its suffix
\* in the lock file, and no two adapters that hold the lock have the same
\* suffix.
C28_HoldersRecorded ==
  /\ \A a \in DOMAIN adapters :
        adapters[a].has_lock =>
           lock_file.exists /\ adapters[a].suffix \in Range(lock_file.suffixes)
  /\ \A a, b \in DOMAIN adapters :
        (a # b /\ adapters[a].has_lock /\ adapters[b].has_lock) =>
           adapters[a].suffix # adapters[b].suffix

(***************************************************************************)
(* The life of one adapter: prepare, simulate and reset calls, the garbage *)
(* collection of the adapter and the end of the interpreter.               *)
(***************************************************************************)

\* How the steps that are not modelled (the NEST kernel, the HDF5 file) end.
Outcomes == {"ok", "error"}

\* NestAdapter.prepare: `outcome` is the end of the steps after lock()
\* (install_modules ... connect_neurons, lines 392-406).
prepare(self, file, outcome) ==
  IF self.is_prepared
  THEN [ok |-> FALSE, err |-> "AdapterException", file |-> file, self |-> self]
  ELSE LET r == lock(self, file) IN
       IF ~r.ok THEN r
       ELSE IF outcome = "error"
       THEN [ok |-> FALSE, err |-> "Exception", file |-> r.file, self |-> r.self]
       ELSE [ok |-> TRUE, err |-> "", file |-> r.file,
             self |-> [r.self EXCEPT !.is_prepared = TRUE]]

\* NestAdapter.simulate: `outcome` is the end of simulator.Simulate (line
\* 557); the lock is released after it returned.
simulate(self, file, outcome) ==
  IF outcome = "error"
  THEN [ok |-> FALSE, err |-> "Exception", file |-> file, self |-> self]
  ELSE IF self.has_lock THEN release_lock(self, file)
  ELSE [ok |-> TRUE, err |-> "", file |-> file, self |-> self]

\* NestAdapter.reset: is_prepared is cleared first; `outcome` is the end of
\* reset_kernel and of the cell models' reset.
reset(self, outcome) ==
  [ok |-> outcome = "ok", err |-> IF outcome = "ok" THEN "" ELSE "Exception",
   self |-> [self EXCEPT !.is_prepared = FALSE]]

\* NestAdapter.__safedel__
safedel(self, file) ==
  IF self.has_lock THEN release_lock(self, file)
  ELSE [ok |-> TRUE, err |-> "", file |-> file, self |-> self]

\* finalize_self (lines 370-372) with the adapter its weak reference
\* gives: None once the adapter is collected.
finalize_self(weak_obj, file) ==
  IF weak_obj # None THEN safedel(weak_obj, file)
  ELSE [ok |-> TRUE, err |-> "", file |-> file, self |-> weak_obj]

\* The adapter can be called: it is referenced and the interpreter runs.
Callable(a) == adapters[a].alive /\ ~exited

\* adapter.prepare(hdf5)
Prepare(a, outcome) ==
  /\ Callable(a)
  /\ LET r == prepare(adapters[a], lock_file, outcome) IN
     /\ adapters' = [adapters EXCEPT
                       ![a] = [r.self EXCEPT
                                 !.last = [op |-> "prepare", err |-> r.err,
                                           conflict |-> Excluded(a)]]]
     /\ lock_file' = r.file
  /\ UNCHANGED exited
  /\ OnlyLocks

\* adapter.simulate(simulator)
Simulate(a, outcome) ==
  /\ Callable(a)
  /\ LET r == simulate(adapters[a], lock_file, outcome) IN
     /\ adapters' = [adapters EXCEPT
                       ![a] = [r.self EXCEPT
                                 !.last = [op |-> "simulate", err |-> r.err,
                                           conflict |-> FALSE]]]
     /\ lock_file' = r.file
  /\ UNCHANGED exited
  /\ OnlyLocks

\* adapter.reset()
Reset(a, outcome) ==
  /\ Callable(a)
  /\ LET r == reset(adapters[a], outcome) IN
     adapters' = [adapters EXCEPT
                    ![a] = [r.self EXCEPT
                              !.last = [op |-> "reset", err |-> r.err,
                                        conflict |-> FALSE]]]
  /\ UNCHANGED <<lock_file, exited>>
  /\ OnlyLocks

\* The last reference to the adapter goes: weakref.finalize (line 375)
\* calls finalize_self, whose weak reference is dead by then.
Collect(a) ==
  /\ Callable(a)
  /\ LET r == finalize_self(None, lock_file) IN
     /\ adapters' = [adapters EXCEPT ![a].alive = FALSE]
     /\ lock_file' = r.file
  /\ UNCHANGED exited
  /\ OnlyLocks

\* The interpreter ends: the finalizers of the adapters still referenced
\* run at exit, their weak references alive.
RECURSIVE AtExit(_, _, _)
AtExit(list, a, file) ==
  IF a > Len(list) THEN [list |-> list, file |-> file]
  ELSE IF ~list[a].alive THEN AtExit(list, a + 1, file)
  ELSE LET r == finalize_self(list[a], file)
       IN  AtExit([list EXCEPT ![a] = r.self], a + 1, r.file)

Exit ==
  /\ ~exited
  /\ LET r == AtExit(adapters, 1, lock_file) IN
     /\ adapters' = r.list
     /\ lock_file' = r.file
  /\ exited' = TRUE
  /\ OnlyLocks

InitLife ==
  /\ Start(FullDocument, EmptyDict)
  /\ adapter = NoAdapter /\ heap = NoHeap /\ configs = <<>>
  /\ adapters \in [1..1 -> AdapterKinds]
  /\ lock_file = NoFile
  /\ exited = FALSE

NextLife ==
  \/ \E a \in DOMAIN adapters, outcome \in Outcomes : Prepare(a, outcome)
  \/ \E a \in DOMAIN adapters, outcome \in Outcomes : Simulate(a, outcome)
  \/ \E a \in DOMAIN adapters, outcome \in Outcomes : Reset(a, outcome)
  \/ \E a \in DOMAIN adapters : Collect(a)
  \/ Exit

SpecLife == InitLife /\ [][NextLife]_vars

\* The interpreter ends at some time.
SpecLifeFair == SpecLife /\ WF_vars(Exit)

\* The lock file records the adapter a.
Recorded(a) ==
  /\ lock_file.exists
  /\ IF adapters[a].multi
     THEN lock_file.multi /\ adapters[a].suffix \in Range(lock_file.suffixes)
     ELSE ~lock_file.multi

\* prepare() or the simulate() after it has ended, by a return or by an
\* error, and left the adapter with the lock.
EndedHolding(a) ==
  /\ adapters[a].last.op \in {"prepare", "simulate"}
  /\ adapters[a].has_lock

\* C29: a kernel lock acquired by prepare() is released on every exit path:
\* whenever prepare() or the following simulate() has ended, by a return or
\* by an error after lock(), the adapter eventually holds no lock and the
\* lock file does not record it.
C29_LockReleasedOnEveryPath ==
  \A a \in {1} :
     EndedHolding(a) ~> (~adapters[a].has_lock /\ ~Recorded(a))

\* C30: with one single-instance adapter and no other adapter, a prepare()
\* made while is_prepared is false never fails with KernelLockedException
\* because of a lock the adapter itself holds.
C30_NoSelfLockout ==
  \A a \in DOMAIN adapters :
     (/\ ~adapters[a].multi
      /\ adapters[a].last.op = "prepare"
      /\ adapters[a].last.err = "KernelLockedException")
        => ~adapters[a].has_lock

=============================================================================
